---- MODULE Spec2Model ----
(***************************************************************************)
(* A model of the Stellar (Soroban) event indexer of                      *)
(* packages/backend/src/stellar-indexer/services/stellar-indexer.service.ts*)
(*                                                                         *)
(* One StellarIndexerService instance, its interval timers, the poll       *)
(* cycles (fetchAndProcessEvents calls) it has in flight, the chain it     *)
(* polls and the `calls` table it writes to.  Every `await` of the source  *)
(* is a suspension point: the step that issues a call and the step that    *)
(* resumes after it are different actions, and the steps of different      *)
(* cycles interleave freely, as promises on one event loop do.             *)
(***************************************************************************)
EXTENDS Integers, Sequences, FiniteSets, Bags, TLC

(***************************************************************************)
(* Bounds of the model.                                                    *)
(***************************************************************************)
\* poll cycles started in a run (the immediate polls and the timer ticks)
MaxPolls == 2
\* start() calls in a run that found the indexer not running
MaxStarts == 2

(***************************************************************************)
(* Program constants.                                                      *)
(***************************************************************************)
\* initialize(): the default of config.maxRetries
DefaultMaxRetries == 3
\* start(): `latestLedger.sequence - 100`
StartLookback == 100
\* initialize() / start(): `this.config.startLedger || 1`, `this.currentLedger = 1`
FallbackLedger == 1

STELLAR == "stellar"
BASE == "base"

\* the chain's latest ledger when the service is constructed: the first
\* head from which start() looks back to a ledger >= 1
HeadInit == StartLookback + 1

(***************************************************************************)
(* The chain: the contract events the RPC serves, in ledger order.  `id`   *)
(* is the event id split at '-'; `decodable` says whether the XDR of the   *)
(* event parses (parseEvent throws when it does not).                      *)
(***************************************************************************)
ChainEvents ==
  << [ledger |-> HeadInit, contractId |-> "CA", txHash |-> "t1", id |-> <<HeadInit, 0>>,
      decodable |-> FALSE, topic |-> "CallCreated"],
     [ledger |-> HeadInit, contractId |-> "CA", txHash |-> "t1", id |-> <<HeadInit, 1>>,
      decodable |-> TRUE, topic |-> "StakeAdded"],
     [ledger |-> HeadInit + 1, contractId |-> "CA", txHash |-> "t2", id |-> <<HeadInit + 1>>,
      decodable |-> TRUE, topic |-> "stake_withdrawn"] >>

EventIdx == 1..Len(ChainEvents)

\* the chain closes ledgers up to the last one that holds an event
LastLedger == ChainEvents[Len(ChainEvents)].ledger

VARIABLES
  isRunning,      \* this.isRunning
  currentLedger,  \* this.currentLedger (the cursor)
  config,         \* this.config: startLedger (0: not configured), contractIds,
                  \* maxRetries
  pollInterval,   \* this.pollInterval: the handle of the last setInterval (0: none)
  liveTimers,     \* interval timers created and not cleared
  startsPending,  \* start() calls suspended at `await getLatestLedger()`
  cycles,         \* the poll cycles pending, a bag of records
  head,           \* the chain's latest ledger
  store,          \* the rows of the `calls` table, a bag
  lastLog,        \* the last message start(), stop() or pollForEvents logged
  nPolls,         \* poll cycles started so far
  nStarts         \* start() calls so far that found the indexer not running

\* the Base indexer (IndexerService) and the table of calls it keeps
VARIABLES
  callsTable,     \* the rows callsRepository holds, in insertion order
  handlers,       \* the event handlers pending, a bag of records
  deliveries,     \* how many times each chain event was delivered to the service
  applied         \* how many handlers of each StakeAdded event saved its increment

stellarVars == <<isRunning, currentLedger, config, pollInterval, liveTimers,
                 startsPending, cycles, head, store, lastLog, nPolls, nStarts>>

\* one call of a pure helper (calculatePayout, buildOutcomeMessage)
VARIABLES
  fnArgs,         \* the arguments of the call
  fnResult        \* what the call returned or threw, NotCalled before it

\* the oracle: OracleService with its AuditTrail, and the OracleMonitor
VARIABLES
  now,                 \* the clock, in seconds (Date.now() / 1000)
  pendingCalls,        \* OracleMonitor.pendingCalls, in insertion order
  settlementInterval,  \* OracleMonitor.settlementInterval is set (not null)
  liveIntervals,       \* interval timers created and not cleared
  ticks,               \* the interval callbacks pending, a bag of records
  auditTrail,          \* AuditTrail.entries
  signedOutcomes,      \* the submissions signOutcome has signed, in order
  nTicks,              \* interval callbacks run so far
  nRegistered,         \* registerCall calls so far, per call id
  nMonitorStarts       \* startMonitoring calls so far

\* the polling indexer of the Base chain (BaseIndexerService), and how the
\* lifecycle calls made on a service that was never initialized ended
VARIABLES
  baseIsRunning,     \* BaseIndexerService.isRunning
  currentBlock,      \* BaseIndexerService.currentBlock (the cursor)
  baseConfig,        \* BaseIndexerService.config
  basePollInterval,  \* BaseIndexerService.pollInterval is set
  baseTimers,        \* its interval timers created and not cleared
  blockHead,         \* the Base chain's latest block
  nBlockPolls,       \* poll cycles of BaseIndexerService so far
  nBaseStarts,       \* start() calls on it so far that found it not running
  lastCall           \* the last lifecycle call on a service that was never
                     \* initialized, and whether it returned or raised

baseVars == <<callsTable, handlers, deliveries, applied>>

blockVars == <<baseIsRunning, currentBlock, baseConfig, basePollInterval,
               baseTimers, blockHead, nBlockPolls, nBaseStarts, lastCall>>

oracleVars == <<now, pendingCalls, settlementInterval, liveIntervals, ticks,
                auditTrail, signedOutcomes, nTicks, nRegistered,
                nMonitorStarts>>

calcVars == <<fnArgs, fnResult>>

\* what the Stellar indexer never touches
nonStellar == <<baseVars, calcVars, oracleVars, blockVars>>

\* what the Base indexer never touches
nonBase == <<stellarVars, calcVars, oracleVars, blockVars>>

\* what a call of a pure helper never touches
nonCalc == <<stellarVars, baseVars, oracleVars, blockVars>>

\* what the oracle never touches
nonOracle == <<stellarVars, baseVars, blockVars>>

vars == <<stellarVars, baseVars, calcVars, oracleVars, blockVars>>

TimerIds == 1..(MaxStarts + 1)

(***************************************************************************)
(* Pure helpers of the service.                                            *)
(***************************************************************************)
\* mapEventTypeName: the three mapped names map to themselves, any other
\* name passes through (`nameMap[rawName] || rawName`)
nameMap == [n \in {"CallCreated", "StakeAdded", "OutcomeSubmitted"} |-> n]

mapEventTypeName(rawName) ==
  IF rawName \in DOMAIN nameMap THEN nameMap[rawName] ELSE rawName

\* parseEvent: `event.id.split('-')[1] ? parseInt(event.id.split('-')[1]) : 0`
ParseSequence(id) == IF Len(id) >= 2 THEN id[2] ELSE 0

\* parseEvent: the ParsedSorobanEvent of a decodable event, under the
\* contract id the events were queried for
parseEvent(e, contractId) ==
  [type |-> mapEventTypeName(e.topic),
   contractId |-> contractId,
   ledger |-> e.ledger,
   txHash |-> e.txHash,
   sequence |-> ParseSequence(e.id)]

\* storeEvent, callRepository.create: the row built from a parsed event
CreateRow(p) ==
  [chain |-> STELLAR,
   txHash |-> p.txHash,
   contractId |-> p.contractId,
   eventType |-> p.type,
   ledgerHeight |-> p.ledger,
   eventSequence |-> p.sequence]

\* findOne looking under the other chain
FindOne_WrongChain(st, p) ==
  {r \in BagToSet(st) :
     r.chain = BASE /\ r.txHash = p.txHash /\ r.eventSequence = p.sequence}

\* storeEvent, callRepository.findOne: the rows matching the where clause
FindOne(st, p) ==
  {r \in BagToSet(st) :
     r.chain = STELLAR /\ r.txHash = p.txHash /\ r.eventSequence = p.sequence}

\* callRepository.save of a row without primary key: an INSERT.  The entity
\* declares no unique index, so the table takes a second row with the same
\* (chain, txHash, eventSequence).
SaveRow(st, row) == st (+) SetToBag({row})

\* the copies bag b holds of the elements of S
RECURSIVE Copies(_, _)
Copies(b, S) ==
  IF S = {} THEN 0
  ELSE LET r == CHOOSE x \in S : TRUE IN CopiesIn(r, b) + Copies(b, S \ {r})

\* rows of the table under one dedup key
KeyCount(st, chain, txHash, seq) ==
  Copies(st, {r \in BagToSet(st) :
                r.chain = chain /\ r.txHash = txHash /\ r.eventSequence = seq})

\* sorobanRpc.getEvents({startLedger, filters: [{contractIds: [contractId]}]}):
\* the events of the contract from startLedger up to the ledger the chain
\* has reached when the call is answered (no end ledger is passed)
GetEvents(startLedger, contractId, latest) ==
  SelectSeq([j \in EventIdx |-> j],
            LAMBDA j : /\ ChainEvents[j].contractId = contractId
                       /\ ChainEvents[j].ledger >= startLedger
                       /\ ChainEvents[j].ledger <= latest)

\* the retry test off by one
CanRetry_OffByOne(retryCount) == retryCount <= config.maxRetries

\* fetchAndProcessEvents, catch block: `retryCount < this.config.maxRetries`
CanRetry(retryCount) == retryCount < config.maxRetries

\* the catch block rethrowing after the last retry
AfterMaxRetries_Rethrow == "raised"

\* fetchAndProcessEvents, catch block after the last retry: the error is
\* logged and the promise resolves
AfterMaxRetries == "abandoned"

\* start() without its guard
AlreadyRunning_Never == FALSE

\* start(): `if (this.isRunning) return`
AlreadyRunning == isRunning

\* a decode failure caught by the catch around the body of fetchContractEvents
CaughtBy_ParseAbortsBatch(site) == IF site = "head" THEN "cycle" ELSE "contract"

(***************************************************************************)
(* Where an exception thrown at a site of a poll cycle is caught.          *)
(*   "inner"    the try/catch around one event in fetchContractEvents      *)
(*   "contract" the try/catch around fetchContractEvents' body             *)
(*   "cycle"    the try/catch of fetchAndProcessEvents (retry policy)      *)
(***************************************************************************)
CaughtBy(site) ==
  CASE site = "head"      -> "cycle"
    [] site = "getEvents" -> "contract"
    [] site = "parse"     -> "inner"
    [] site = "findOne"   -> "inner"
    [] site = "save"      -> "inner"

(***************************************************************************)
(* Poll cycles.  A cycle is one call of fetchAndProcessEvents from         *)
(* pollForEvents together with the retries it chains to; `cycles` holds    *)
(* one record for every cycle whose promise pollForEvents still waits on.  *)
(*   pc          where the cycle is suspended, or how it ended             *)
(*   retryCount  the parameter of the current fetchAndProcessEvents call   *)
(*   attempts    getLatestLedger calls issued by the cycle                 *)
(*   delays      retry delays the cycle has waited                         *)
(*   toLedger    latestLedger.sequence of the current attempt              *)
(*   k           index in contractIds of the contract being fetched        *)
(*   from        startLedger argument of the current fetchContractEvents   *)
(*   batch       the events of events.events the for loop has not finished *)
(*               with; the first one is the event being stored             *)
(*   failed      an RPC or repository call failed in the current attempt   *)
(*               (an error was logged for it)                              *)
(*   sawExisting storeEvent found its event already indexed                *)
(*   startCursor this.currentLedger when the cycle was started             *)
(* retryCount, attempts, delays and startCursor are read only by the catch *)
(* block of fetchAndProcessEvents; once no exception of the attempt can    *)
(* reach that block any more they are dead and the record drops them.      *)
(***************************************************************************)
NewCycle ==
  [pc |-> "new", retryCount |-> 0, attempts |-> 0, delays |-> 0, toLedger |-> 0,
   k |-> 0, from |-> 0, batch |-> <<>>, failed |-> FALSE,
   sawExisting |-> FALSE, startCursor |-> 0]

InFlightPcs == {"head", "delay", "events", "findOne", "save"}
TerminalPcs == {"advanced", "noNew", "abandoned", "raised"}

\* the number of cycles of cs that are in flight
InFlight(cs) == Copies(cs, {r \in BagToSet(cs) : r.pc \in InFlightPcs})

\* bag cs with one copy of record old replaced by new
Replace(cs, old, new) == (cs (-) SetToBag({old})) (+) SetToBag({new})

\* fetchAndProcessEvents(retryCount) entered: getLatestLedger is issued
BeginAttempt(rec, retryCount) ==
  [NewCycle EXCEPT !.pc = "head", !.retryCount = retryCount,
                   !.attempts = rec.attempts + 1, !.delays = rec.delays,
                   !.startCursor = rec.startCursor]

\* the first call of a cycle, from pollForEvents
BeginCycle(cur) == BeginAttempt([NewCycle EXCEPT !.startCursor = cur], 0)

\* the event a cycle suspended in storeEvent is storing
ParsedOf(rec) == parseEvent(ChainEvents[Head(rec.batch)], config.contractIds[rec.k])

RECURSIVE ContinueBatch(_, _), Throw(_, _, _)

\* fetchAndProcessEvents, the for loop over contractIds: the next
\* fetchContractEvents is called with the cursor as it is now, and after the
\* last contract the cursor is set
NextContract(rec, cur) ==
  IF rec.k < Len(config.contractIds)
  THEN [rec EXCEPT !.pc = "events", !.k = rec.k + 1, !.from = cur, !.batch = <<>>]
  ELSE [rec EXCEPT !.pc = "advanced", !.from = 0, !.batch = <<>>]

\* an exception thrown at `site`, taken to the handler that catches it
Throw(rec, site, cur) ==
  LET h == CaughtBy(site)
      marked == IF site = "parse" THEN rec ELSE [rec EXCEPT !.failed = TRUE]
  IN CASE h = "inner" -> ContinueBatch([marked EXCEPT !.batch = Tail(@)], cur)
       [] h = "contract" -> NextContract(marked, cur)
       [] h = "cycle" ->
            IF CanRetry(rec.retryCount)
            THEN [marked EXCEPT !.pc = "delay"]
            ELSE [marked EXCEPT !.pc = AfterMaxRetries]
       [] OTHER -> [marked EXCEPT !.pc = "raised"]

\* fetchContractEvents, the for loop over events.events at the first event
\* of rec.batch: parseEvent runs synchronously, storeEvent suspends at
\* findOne
ContinueBatch(rec, cur) ==
  IF rec.batch = <<>> THEN NextContract(rec, cur)
  ELSE IF ~ChainEvents[Head(rec.batch)].decodable
       THEN Throw(rec, "parse", cur)
       ELSE [rec EXCEPT !.pc = "findOne", !.from = 0]

\* an exception thrown after the head fetch can still reach the retry policy
RetryAfterHead ==
  \E site \in {"getEvents", "parse", "findOne", "save"} :
     CaughtBy(site) \notin {"inner", "contract"}

\* the record of an attempt whose head fetch succeeded
PastHead(rec) ==
  IF RetryAfterHead THEN rec
  ELSE [rec EXCEPT !.retryCount = 0, !.attempts = 0, !.delays = 0,
                   !.startCursor = 0]

\* a step of a cycle from record old to record new: `this.currentLedger =
\* toLedger + 1` is the last statement of an attempt that gets through
CycleStep(old, new) ==
  /\ cycles' = Replace(cycles, old, new)
  /\ currentLedger' = (IF new.pc = "advanced" THEN new.toLedger + 1
                       ELSE currentLedger)

(***************************************************************************)
(* The Base indexer before it listens: no row, no handler, no event.       *)
(***************************************************************************)
BaseIdle ==
  /\ callsTable = <<>>
  /\ handlers = EmptyBag
  /\ deliveries = <<>>
  /\ applied = <<>>

\* this.config before initialize()
Undefined == [undefined |-> TRUE]

\* no lifecycle call was made
NoCallYet == [op |-> "none", result |-> "returned"]

\* BaseIndexerService after the constructor and initialize({startBlock: 1})
BlockIdle ==
  /\ baseIsRunning = FALSE
  /\ baseConfig = [startBlock |-> 1, maxRetries |-> DefaultMaxRetries]
  /\ currentBlock = 1
  /\ basePollInterval = FALSE
  /\ baseTimers = 0
  /\ blockHead = 1
  /\ nBlockPolls = 0
  /\ nBaseStarts = 0
  /\ lastCall = NoCallYet

\* the call ids the oracle is asked to settle
CallIds == {1, 2}

\* the oracle before any call is registered and before monitoring starts
OracleIdle ==
  /\ now = 0
  /\ pendingCalls = <<>>
  /\ settlementInterval = FALSE
  /\ liveIntervals = 0
  /\ ticks = EmptyBag
  /\ auditTrail = <<>>
  /\ signedOutcomes = <<>>
  /\ nTicks = 0
  /\ nRegistered = [id \in CallIds |-> 0]
  /\ nMonitorStarts = 0

\* no helper was called
NotCalled == [kind |-> "notCalled"]

CalcIdle ==
  /\ fnArgs = <<>>
  /\ fnResult = NotCalled

(***************************************************************************)
(* The state after the constructor and initialize(config).                 *)
(***************************************************************************)
Init ==
  /\ config \in {[startLedger |-> s, contractIds |-> <<"CA">>,
                   maxRetries |-> DefaultMaxRetries] : s \in {0, HeadInit}}
  /\ isRunning = FALSE
  /\ currentLedger = (IF config.startLedger # 0 THEN config.startLedger
                      ELSE FallbackLedger)
  /\ pollInterval = 0
  /\ liveTimers = {}
  /\ startsPending = 0
  /\ cycles = EmptyBag
  /\ head = HeadInit
  /\ store = EmptyBag
  /\ lastLog = "Initialized"
  /\ nPolls = 0
  /\ nStarts = 0
  /\ BaseIdle
  /\ CalcIdle
  /\ OracleIdle
  /\ BlockIdle

(***************************************************************************)
(* Lifecycle.                                                              *)
(***************************************************************************)
\* a handle setInterval has not returned before
NewTimer ==
  CHOOSE t \in TimerIds \ (liveTimers \cup {pollInterval}) :
    \A u \in TimerIds \ (liveTimers \cup {pollInterval}) : t <= u

\* pollForEvents(): setInterval, then the immediate fetchAndProcessEvents(),
\* which runs up to its first await; `cur` is the cursor it starts with
PollForEvents(cur) ==
  /\ nPolls < MaxPolls
  /\ nPolls' = nPolls + 1
  /\ pollInterval' = NewTimer
  /\ liveTimers' = liveTimers \cup {NewTimer}
  /\ cycles' = cycles (+) SetToBag({BeginCycle(cur)})

\* start()
Start ==
  IF AlreadyRunning
  THEN /\ lastLog' = "AlreadyRunning"
       /\ UNCHANGED <<isRunning, currentLedger, config, pollInterval,
                      liveTimers, startsPending, cycles, head, store, nPolls,
                      nStarts, nonStellar>>
  ELSE /\ nStarts < MaxStarts
       /\ nStarts' = nStarts + 1
       /\ isRunning' = TRUE
       /\ lastLog' = "Starting"
       /\ IF config.startLedger = 0
          THEN \* suspended at `await this.sorobanRpc.getLatestLedger()`
               /\ startsPending' = startsPending + 1
               /\ UNCHANGED <<pollInterval, liveTimers, cycles, nPolls>>
          ELSE /\ PollForEvents(currentLedger)
               /\ UNCHANGED startsPending
       /\ UNCHANGED <<currentLedger, config, head, store, nonStellar>>

\* start() resumed after getLatestLedger: the cursor is set from the answer
\* (or to 1 when the call failed), then pollForEvents() runs
StartResume(ok) ==
  /\ startsPending > 0
  /\ startsPending' = startsPending - 1
  /\ currentLedger' = (IF ok THEN head - StartLookback ELSE FallbackLedger)
  /\ lastLog' = (IF ok THEN lastLog ELSE "StartLedgerFailed")
  /\ PollForEvents(currentLedger')
  /\ UNCHANGED <<isRunning, config, head, store, nStarts, nonStellar>>

\* stop()
Stop ==
  IF ~isRunning
  THEN UNCHANGED vars
  ELSE /\ isRunning' = FALSE
       /\ liveTimers' = (IF pollInterval # 0 THEN liveTimers \ {pollInterval}
                         ELSE liveTimers)
       /\ lastLog' = "Stopped"
       /\ UNCHANGED <<currentLedger, config, pollInterval, startsPending,
                      cycles, head, store, nPolls, nStarts, nonStellar>>

\* the setInterval callback of timer t
Tick(t) ==
  /\ t \in liveTimers
  /\ IF ~isRunning
     THEN UNCHANGED vars
     ELSE /\ nPolls < MaxPolls
          /\ nPolls' = nPolls + 1
          /\ cycles' = cycles (+) SetToBag({BeginCycle(currentLedger)})
          /\ UNCHANGED <<isRunning, currentLedger, config, pollInterval,
                         liveTimers, startsPending, head, store, lastLog,
                         nStarts, nonStellar>>

(***************************************************************************)
(* The steps of a poll cycle, one per await.                               *)
(***************************************************************************)
\* fetchAndProcessEvents resumed after getLatestLedger
HeadResolve(rec, ok) ==
  /\ rec \in BagToSet(cycles)
  /\ rec.pc = "head"
  /\ LET past == [PastHead(rec) EXCEPT !.toLedger = head]
     IN CycleStep(rec,
          IF ~ok THEN Throw(rec, "head", currentLedger)
          ELSE IF currentLedger > head
               THEN [past EXCEPT !.pc = "noNew", !.toLedger = 0]
               ELSE NextContract(past, currentLedger))
  /\ UNCHANGED <<isRunning, config, pollInterval, liveTimers, startsPending,
                 head, store, lastLog, nPolls, nStarts, nonStellar>>

\* the retry delay elapsed: fetchAndProcessEvents(retryCount + 1)
DelayElapse(rec) ==
  /\ rec \in BagToSet(cycles)
  /\ rec.pc = "delay"
  /\ CycleStep(rec, BeginAttempt([rec EXCEPT !.delays = @ + 1], rec.retryCount + 1))
  /\ UNCHANGED <<isRunning, config, pollInterval, liveTimers, startsPending,
                 head, store, lastLog, nPolls, nStarts, nonStellar>>

\* fetchContractEvents resumed after getEvents
EventsResolve(rec, ok) ==
  /\ rec \in BagToSet(cycles)
  /\ rec.pc = "events"
  /\ LET batch == GetEvents(rec.from, config.contractIds[rec.k], head)
     IN CycleStep(rec,
          IF ~ok THEN Throw(rec, "getEvents", currentLedger)
          ELSE ContinueBatch([rec EXCEPT !.batch = batch], currentLedger))
  /\ UNCHANGED <<isRunning, config, pollInterval, liveTimers, startsPending,
                 head, store, lastLog, nPolls, nStarts, nonStellar>>

\* storeEvent resumed after findOne
FindResolve(rec, ok) ==
  /\ rec \in BagToSet(cycles)
  /\ rec.pc = "findOne"
  /\ CycleStep(rec,
       IF ~ok THEN Throw(rec, "findOne", currentLedger)
       ELSE IF FindOne(store, ParsedOf(rec)) # {}
            THEN ContinueBatch([rec EXCEPT !.sawExisting = TRUE,
                                           !.batch = Tail(@)], currentLedger)
            ELSE [rec EXCEPT !.pc = "save"])
  /\ UNCHANGED <<isRunning, config, pollInterval, liveTimers, startsPending,
                 head, store, lastLog, nPolls, nStarts, nonStellar>>

\* storeEvent resumed after save
SaveResolve(rec, ok) ==
  /\ rec \in BagToSet(cycles)
  /\ rec.pc = "save"
  /\ CycleStep(rec,
       IF ~ok THEN Throw(rec, "save", currentLedger)
       ELSE ContinueBatch([rec EXCEPT !.batch = Tail(@)], currentLedger))
  /\ store' = (IF ok THEN SaveRow(store, CreateRow(ParsedOf(rec))) ELSE store)
  /\ UNCHANGED <<isRunning, config, pollInterval, liveTimers, startsPending,
                 head, lastLog, nPolls, nStarts, nonStellar>>

\* pollForEvents: the callback (or the .catch of the initial poll) resumed
\* after the promise of fetchAndProcessEvents settled
CycleReturn(rec) ==
  /\ rec \in BagToSet(cycles)
  /\ rec.pc \in TerminalPcs
  /\ cycles' = cycles (-) SetToBag({rec})
  /\ lastLog' = (IF rec.pc = "raised" THEN "PollError" ELSE lastLog)
  /\ UNCHANGED <<isRunning, currentLedger, config, pollInterval, liveTimers,
                 startsPending, head, store, nPolls, nStarts, nonStellar>>

(***************************************************************************)
(* The chain closes a ledger.                                              *)
(***************************************************************************)
HeadAdvance ==
  /\ head < LastLedger
  /\ head' = head + 1
  /\ UNCHANGED <<isRunning, currentLedger, config, pollInterval, liveTimers,
                 startsPending, cycles, store, lastLog, nPolls, nStarts,
                 nonStellar>>

Next ==
  \/ Start
  \/ \E ok \in BOOLEAN : StartResume(ok)
  \/ Stop
  \/ \E t \in TimerIds : Tick(t)
  \/ \E rec \in BagToSet(cycles), ok \in BOOLEAN : HeadResolve(rec, ok)
  \/ \E rec \in BagToSet(cycles) : DelayElapse(rec)
  \/ \E rec \in BagToSet(cycles), ok \in BOOLEAN : EventsResolve(rec, ok)
  \/ \E rec \in BagToSet(cycles), ok \in BOOLEAN : FindResolve(rec, ok)
  \/ \E rec \in BagToSet(cycles), ok \in BOOLEAN : SaveResolve(rec, ok)
  \/ \E rec \in BagToSet(cycles) : CycleReturn(rec)
  \/ HeadAdvance

Spec == Init /\ [][Next]_vars

(***************************************************************************)
(* Properties.                                                             *)
(***************************************************************************)
\* the decodable events of the monitored contracts
Ingestible ==
  {j \in EventIdx : /\ ChainEvents[j].decodable
                    /\ \E k \in DOMAIN config.contractIds :
                         config.contractIds[k] = ChainEvents[j].contractId}

\* event j has a row in table st
Stored(st, j) ==
  FindOne(st, parseEvent(ChainEvents[j], ChainEvents[j].contractId)) # {}

\* this step is a step of an in-flight cycle, from record old to record new
Steps(old, new) ==
  /\ old.pc \in InFlightPcs
  /\ new # old
  /\ cycles' = Replace(cycles, old, new)

\* C1: in every reachable state the table holds at most one row for each
\* key (chain, txHash, eventSequence).
C1_AtMostOneRowPerKey ==
  \A r \in BagToSet(store) :
    KeyCount(store, r.chain, r.txHash, r.eventSequence) <= 1

\* C2: a storeEvent call whose event already has a row adds no row and
\* changes no row, so the number of rows under the key stays what it was;
\* when its lookup is answered it returns normally (it logs no error) having
\* found the event indexed, and never goes on to save.
C2_SequentialIdempotence ==
  [][\A old \in BagToSet(cycles), new \in BagToSet(cycles') :
       (/\ old.pc = "findOne"
        /\ Steps(old, new)
        /\ KeyCount(store, STELLAR, ParsedOf(old).txHash,
                    ParsedOf(old).sequence) >= 1)
       => /\ store' = store
          /\ new.pc # "save"
          /\ FindResolve(old, TRUE) =>
               (new.sawExisting /\ new.failed = old.failed)]_vars

\* C2 witness: a storeEvent call found its event indexed, no call of that
\* cycle failed, and every key of the table has exactly one row.
C2_Witness ==
  /\ \E rec \in BagToSet(cycles) : rec.sawExisting /\ ~rec.failed
  /\ store # EmptyBag
  /\ \A r \in BagToSet(store) :
       KeyCount(store, r.chain, r.txHash, r.eventSequence) = 1

\* C3: a cycle sets the cursor to head+1 only if no fetch and no store of
\* its attempt failed.
C3_AdvanceOnlyIfAllSucceeded ==
  \A rec \in BagToSet(cycles) : rec.pc = "advanced" => ~rec.failed

\* C4: the cursor never moves forward past the ledger of a decodable event
\* of a monitored contract that is not in the table.
C4_CursorNeverPassesUnstored ==
  [][\A j \in Ingestible :
       (currentLedger <= ChainEvents[j].ledger
          /\ ChainEvents[j].ledger < currentLedger')
       => Stored(store', j)]_vars

\* C5: at most one poll cycle of the indexer is in flight.
C5_OneCycleInFlight == InFlight(cycles) <= 1

\* C6: while the indexer is stopped, a cycle that resumes stores no event
\* and does not change the cursor.
C6_StopDiscardsInFlight ==
  [][(/\ ~isRunning
      /\ \E old \in BagToSet(cycles), new \in BagToSet(cycles') : Steps(old, new))
       => (store' = store /\ currentLedger' = currentLedger)]_vars

\* C7: a cycle is abandoned after exactly maxRetries + 1 head fetches and
\* maxRetries delays, and every retry of a cycle follows one delay.
C7_RetryBound ==
  \A rec \in BagToSet(cycles) :
    /\ rec.pc = "abandoned" =>
         /\ rec.retryCount = config.maxRetries
         /\ rec.attempts = config.maxRetries + 1
         /\ rec.delays = config.maxRetries
    /\ rec.pc = "head" =>
         /\ rec.retryCount <= config.maxRetries
         /\ rec.attempts = rec.retryCount + 1
         /\ rec.delays = rec.retryCount

\* C7 witness: a cycle was abandoned under the default maxRetries.
C7_Witness ==
  \E rec \in BagToSet(cycles) : rec.pc = "abandoned" /\ config.maxRetries = 3

\* C8: when a cycle is abandoned the cursor is what it was when the cycle
\* started.
C8_AbandonLeavesCursor ==
  [][\A old \in BagToSet(cycles), new \in BagToSet(cycles') :
       (Steps(old, new) /\ new.pc = "abandoned")
       => currentLedger' = old.startCursor]_vars

\* C9: no poll cycle ends by raising; the step that abandons a cycle leaves
\* the indexer running as it was with its timers in place, and a running
\* indexer's timer can start the next cycle.
C9_NeverRaises ==
  /\ [](\A rec \in BagToSet(cycles) : rec.pc # "raised")
  /\ [][\A old \in BagToSet(cycles), new \in BagToSet(cycles') :
          (Steps(old, new) /\ new.pc \in {"abandoned", "raised"})
          => UNCHANGED <<isRunning, pollInterval, liveTimers>>]_vars
  /\ []((isRunning /\ pollInterval \in liveTimers /\ nPolls < MaxPolls)
        => ENABLED Tick(pollInterval))

\* C9 witness: a cycle was abandoned and the indexer is running with its
\* timer live.
C9_Witness ==
  /\ \E rec \in BagToSet(cycles) : rec.pc = "abandoned"
  /\ isRunning
  /\ pollInterval \in liveTimers

\* C10: start() on a running indexer changes nothing but the log; start()
\* on an indexer that is not running installs exactly one timer and issues
\* exactly one immediate poll, at once when a start ledger is configured and
\* otherwise when its head fetch is answered.
C10_StartOnce ==
  [][/\ (Start /\ isRunning) =>
          UNCHANGED <<isRunning, currentLedger, pollInterval, liveTimers,
                      startsPending, cycles, store, nPolls>>
     /\ (Start /\ ~isRunning /\ config.startLedger = 0) =>
          /\ startsPending' = startsPending + 1
          /\ UNCHANGED <<currentLedger, pollInterval, liveTimers, cycles, nPolls>>
     /\ ((Start /\ ~isRunning /\ config.startLedger # 0)
           \/ \E ok \in BOOLEAN : StartResume(ok)) =>
          /\ Cardinality(liveTimers') = Cardinality(liveTimers) + 1
          /\ pollInterval' \in liveTimers' \ liveTimers
          /\ InFlight(cycles') = InFlight(cycles) + 1
          /\ BagCardinality(cycles') = BagCardinality(cycles) + 1
          /\ nPolls' = nPolls + 1]_vars

\* C10 witness: start() was called on a running indexer after the one
\* start() that found it stopped: one timer is live and one poll was issued.
C10_Witness ==
  /\ lastLog = "AlreadyRunning"
  /\ isRunning
  /\ nStarts = 1
  /\ nPolls = 1
  /\ liveTimers = {pollInterval}

\* C11: a stop() on a stopped indexer changes nothing, a stop() leaves the
\* indexer stopped, and no poll cycle, immediate or scheduled, is started
\* while the indexer is stopped: every step that starts a cycle ends with
\* the indexer running.
C11_StopEffective ==
  [][/\ (Stop /\ ~isRunning) => UNCHANGED vars
     /\ Stop => ~isRunning'
     /\ (nPolls' # nPolls) => isRunning']_vars

\* C33: the Stellar indexer has at most one interval timer that was created
\* and not cleared, over any sequence of start() and stop() calls.
C33_AtMostOneLiveTimer == Cardinality(liveTimers) <= 1

\* C35: while the indexer is running, no step of a poll cycle lowers the
\* cursor (the steps in which a start() resumes and sets its starting
\* cursor are left aside).
C35_CursorMonotone ==
  [][(isRunning /\ isRunning' /\ startsPending' = startsPending)
        => currentLedger' >= currentLedger]_vars

(***************************************************************************)
(* The indexer monitoring two contracts, with its start ledger configured  *)
(* (start() then never awaits the head, so StartResume is never enabled).  *)
(***************************************************************************)
InitBatch ==
  /\ config = [startLedger |-> HeadInit, contractIds |-> <<"CA", "CB">>,
               maxRetries |-> DefaultMaxRetries]
  /\ isRunning = FALSE
  /\ currentLedger = config.startLedger
  /\ pollInterval = 0
  /\ liveTimers = {}
  /\ startsPending = 0
  /\ cycles = EmptyBag
  /\ head = HeadInit
  /\ store = EmptyBag
  /\ lastLog = "Initialized"
  /\ nPolls = 0
  /\ nStarts = 0
  /\ BaseIdle
  /\ CalcIdle
  /\ OracleIdle
  /\ BlockIdle

NextBatch ==
  \/ Start
  \/ Stop
  \/ \E t \in TimerIds : Tick(t)
  \/ \E rec \in BagToSet(cycles), ok \in BOOLEAN : HeadResolve(rec, ok)
  \/ \E rec \in BagToSet(cycles) : DelayElapse(rec)
  \/ \E rec \in BagToSet(cycles), ok \in BOOLEAN : EventsResolve(rec, ok)
  \/ \E rec \in BagToSet(cycles), ok \in BOOLEAN : FindResolve(rec, ok)
  \/ \E rec \in BagToSet(cycles), ok \in BOOLEAN : SaveResolve(rec, ok)
  \/ \E rec \in BagToSet(cycles) : CycleReturn(rec)
  \/ HeadAdvance

SpecBatch == InitBatch /\ [][NextBatch]_vars

\* the events of batch b from its first decodable event on
RECURSIVE DropUndecodable(_)
DropUndecodable(b) ==
  IF b = <<>> THEN <<>>
  ELSE IF ChainEvents[Head(b)].decodable THEN b
       ELSE DropUndecodable(Tail(b))

\* C12: when a cycle resumes with the answer of getEvents, or leaves a
\* storeEvent call, the next event passed to storeEvent is the next event of
\* the batch that decodes, the events after it still to come in order
\* (undecodable events are skipped, nothing else is); when no event that
\* decodes is left the cycle goes on to the next contract, and after the last
\* contract sets the cursor.
C12_DecodeFailureSkipsOneEvent ==
  [][\A old \in BagToSet(cycles), new \in BagToSet(cycles') :
       (/\ Steps(old, new)
        /\ old.pc \in {"events", "findOne", "save"}
        /\ new.pc # "save"
        /\ old.pc = "events" => EventsResolve(old, TRUE))
       => LET rest == DropUndecodable(
                        IF old.pc = "events"
                        THEN GetEvents(old.from, config.contractIds[old.k], head)
                        ELSE Tail(old.batch))
          IN IF rest # <<>>
             THEN new.pc = "findOne" /\ new.batch = rest /\ new.k = old.k
             ELSE IF old.k < Len(config.contractIds)
                  THEN new.pc = "events" /\ new.k = old.k + 1
                  ELSE new.pc = "advanced"]_vars

\* C12 witness: the batch of the first contract began with an event that
\* does not decode; the two events after it were stored, and the cycle is
\* fetching the events of the second contract.
C12_Witness ==
  /\ \E rec \in BagToSet(cycles) : rec.pc = "events" /\ rec.k = 2 /\ ~rec.failed
  /\ ~ChainEvents[1].decodable
  /\ Stored(store, 2)
  /\ Stored(store, 3)

(***************************************************************************)
(* The Base indexer: IndexerService.startListening.                        *)
(*                                                                         *)
(* Stake totals are JavaScript numbers (IEEE 754 doubles).  A number is    *)
(* modelled exactly, for non-negative whole values, by its binary digits,  *)
(* least significant first, without leading zeros (zero is <<>>); a sum is *)
(* rounded to 53 significant bits, ties to even, as `+` does.              *)
(***************************************************************************)
\* the significant bits of a double
MantissaBits == 53

Zeros(k) == [i \in 1..k |-> 0]

\* 2^k
Pow2(k) == Zeros(k) \o <<1>>

One == <<1>>

\* the exact sum a + b + c of two numbers and a carry bit
RECURSIVE AddC(_, _, _)
AddC(a, b, c) ==
  IF a = <<>> /\ b = <<>> THEN (IF c = 1 THEN <<1>> ELSE <<>>)
  ELSE LET x == IF a = <<>> THEN 0 ELSE Head(a)
           y == IF b = <<>> THEN 0 ELSE Head(b)
           t == x + y + c
       IN <<t % 2>> \o AddC(IF a = <<>> THEN a ELSE Tail(a),
                            IF b = <<>> THEN b ELSE Tail(b), t \div 2)

\* the double nearest to the whole number n (round half to even)
RoundToDouble(n) ==
  IF Len(n) <= MantissaBits THEN n
  ELSE LET d == Len(n) - MantissaBits
           hi == SubSeq(n, d + 1, Len(n))
           sticky == \E i \in 1..(d - 1) : n[i] = 1
           roundUp == n[d] = 1 /\ (sticky \/ n[d + 1] = 1)
       IN Zeros(d) \o (IF roundUp THEN AddC(hi, One, 0) ELSE hi)

\* a + b of two JavaScript numbers
NumberAdd(a, b) == RoundToDouble(AddC(a, b, 0))

\* a <= b
RECURSIVE TopLeq(_, _)
TopLeq(a, b) ==
  IF a = <<>> THEN TRUE
  ELSE IF a[Len(a)] # b[Len(b)] THEN a[Len(a)] < b[Len(b)]
       ELSE TopLeq(SubSeq(a, 1, Len(a) - 1), SubSeq(b, 1, Len(b) - 1))

NumberLeq(a, b) ==
  \/ Len(a) < Len(b)
  \/ Len(a) = Len(b) /\ TopLeq(a, b)

\* Number(ethers.formatUnits(amount, 18)) of an amount of `tokens` * 10^18
FormatUnitsNumber(tokens) == RoundToDouble(tokens)

(***************************************************************************)
(* The events the registry contract emits.  Amounts are in whole tokens.   *)
(***************************************************************************)
BaseEvents ==
  << [name |-> "CallCreated", callId |-> 1, amount |-> One, position |-> TRUE],
     [name |-> "StakeAdded", callId |-> 1, amount |-> Pow2(MantissaBits), position |-> TRUE],
     [name |-> "StakeAdded", callId |-> 1, amount |-> One, position |-> TRUE],
     [name |-> "StakeAdded", callId |-> 1, amount |-> One, position |-> TRUE],
     [name |-> "StakeAdded", callId |-> 1, amount |-> One, position |-> FALSE],
     [name |-> "OutcomeSubmitted", callId |-> 1, amount |-> <<>>, position |-> TRUE] >>

BaseEventIdx == DOMAIN BaseEvents

StakeEvents == {j \in BaseEventIdx : BaseEvents[j].name = "StakeAdded"}

\* the events startListening registers a listener for (the abi names them)
Listened == {"CallCreated", "StakeAdded"}

\* deliveries of events beyond each event's first
MaxRedeliveries == 1

RECURSIVE SumOver(_, _)
SumOver(f, S) ==
  IF S = {} THEN 0
  ELSE LET j == CHOOSE x \in S : TRUE IN f[j] + SumOver(f, S \ {j})

Redelivered ==
  SumOver([j \in BaseEventIdx |-> IF deliveries[j] > 1 THEN deliveries[j] - 1 ELSE 0],
          BaseEventIdx)

CanDeliver(j) == deliveries[j] = 0 \/ Redelivered < MaxRedeliveries

\* callsRepository.create in the CallCreated handler (id 0: not yet saved)
NewCall(e) ==
  [id |-> 0, callOnchainId |-> e.callId,
   totalStakeYes |-> FormatUnitsNumber(e.amount), totalStakeNo |-> <<>>,
   status |-> "active"]

\* `call` of a handler that has not loaded its entity yet
NoCall ==
  [id |-> 0, callOnchainId |-> 0, totalStakeYes |-> <<>>, totalStakeNo |-> <<>>,
   status |-> ""]

\* the StakeAdded handler's update of the entity it loaded
AddStake(call, e) ==
  IF e.position
  THEN [call EXCEPT !.totalStakeYes = NumberAdd(@, FormatUnitsNumber(e.amount))]
  ELSE [call EXCEPT !.totalStakeNo = NumberAdd(@, FormatUnitsNumber(e.amount))]

\* the insert of a new row into the calls table of the Base indexer: the
\* row gets the next id; no column besides the id is taken to be unique
InsertCall(table, call) == Append(table, [call EXCEPT !.id = Len(table) + 1])

\* callsRepository.save: an entity without id is inserted, an entity with
\* an id overwrites the row of that id with the values it holds
SaveCall(table, call) ==
  IF call.id = 0 THEN InsertCall(table, call)
  ELSE [table EXCEPT ![call.id] = call]

\* callsRepository.findOne({where: {callOnchainId}}): the rows it may return
FindCall(table, callId) ==
  {i \in DOMAIN table : table[i].callOnchainId = callId}

(***************************************************************************)
(* The state once startListening has registered its listeners.             *)
(***************************************************************************)
InitStake ==
  /\ config = [startLedger |-> HeadInit, contractIds |-> <<"CA">>,
               maxRetries |-> DefaultMaxRetries]
  /\ isRunning = FALSE
  /\ currentLedger = config.startLedger
  /\ pollInterval = 0
  /\ liveTimers = {}
  /\ startsPending = 0
  /\ cycles = EmptyBag
  /\ head = HeadInit
  /\ store = EmptyBag
  /\ lastLog = "Initialized"
  /\ nPolls = 0
  /\ nStarts = 0
  /\ callsTable = <<>>
  /\ handlers = EmptyBag
  /\ deliveries = [j \in BaseEventIdx |-> 0]
  /\ applied = [j \in BaseEventIdx |-> 0]
  /\ CalcIdle
  /\ OracleIdle
  /\ BlockIdle

\* a CallCreated event is delivered: the handler runs up to `await save`
DeliverCallCreated(j) ==
  /\ BaseEvents[j].name = "CallCreated"
  /\ CanDeliver(j)
  /\ deliveries' = [deliveries EXCEPT ![j] = @ + 1]
  /\ handlers' = handlers (+) SetToBag({[ev |-> j, pc |-> "save",
                                         call |-> NewCall(BaseEvents[j])]})
  /\ UNCHANGED <<callsTable, applied, nonBase>>

\* a StakeAdded event is delivered: the handler runs up to `await findOne`
DeliverStakeAdded(j) ==
  /\ BaseEvents[j].name = "StakeAdded"
  /\ CanDeliver(j)
  /\ deliveries' = [deliveries EXCEPT ![j] = @ + 1]
  /\ handlers' = handlers (+) SetToBag({[ev |-> j, pc |-> "findOne",
                                         call |-> NoCall]})
  /\ UNCHANGED <<callsTable, applied, nonBase>>

\* an event no listener is registered for is emitted: nothing runs
DeliverUnhandled(j) ==
  /\ BaseEvents[j].name \notin Listened
  /\ CanDeliver(j)
  /\ deliveries' = [deliveries EXCEPT ![j] = @ + 1]
  /\ UNCHANGED <<callsTable, handlers, applied, nonBase>>

\* the StakeAdded handler resumed after findOne
FindOneReturn(h) ==
  /\ h \in BagToSet(handlers)
  /\ h.pc = "findOne"
  /\ LET found == FindCall(callsTable, BaseEvents[h.ev].callId)
     IN IF found = {}
        THEN handlers' = handlers (-) SetToBag({h})
        ELSE \E i \in found :
               handlers' = (handlers (-) SetToBag({h})) (+)
                 SetToBag({[h EXCEPT !.pc = "save",
                                     !.call = AddStake(callsTable[i], BaseEvents[h.ev])]})
  /\ UNCHANGED <<callsTable, deliveries, applied, nonBase>>

\* a handler resumed after save
SaveReturn(h) ==
  /\ h \in BagToSet(handlers)
  /\ h.pc = "save"
  /\ callsTable' = SaveCall(callsTable, h.call)
  /\ handlers' = handlers (-) SetToBag({h})
  /\ applied' = (IF h.ev \in StakeEvents THEN [applied EXCEPT ![h.ev] = @ + 1]
                 ELSE applied)
  /\ UNCHANGED <<deliveries, nonBase>>

NextStake ==
  \/ \E j \in BaseEventIdx : DeliverCallCreated(j)
  \/ \E j \in BaseEventIdx : DeliverStakeAdded(j)
  \/ \E j \in BaseEventIdx : DeliverUnhandled(j)
  \/ \E h \in BagToSet(handlers) : FindOneReturn(h)
  \/ \E h \in BagToSet(handlers) : SaveReturn(h)

SpecStake == InitStake /\ [][NextStake]_vars

\* the same service when every handler finishes before the next event is
\* delivered
NextStakeSerial ==
  \/ handlers = EmptyBag /\ \E j \in BaseEventIdx : DeliverCallCreated(j)
  \/ handlers = EmptyBag /\ \E j \in BaseEventIdx : DeliverStakeAdded(j)
  \/ handlers = EmptyBag /\ \E j \in BaseEventIdx : DeliverUnhandled(j)
  \/ \E h \in BagToSet(handlers) : FindOneReturn(h)
  \/ \E h \in BagToSet(handlers) : SaveReturn(h)

SpecStakeSerial == InitStake /\ [][NextStakeSerial]_vars

\* the CallCreated event of the call the stake events are for
CreatedIdx == CHOOSE j \in BaseEventIdx : BaseEvents[j].name = "CallCreated"

\* the orders in which the events of S can be applied
Orders(S) ==
  {p \in [1..Cardinality(S) -> S] : \A i, k \in DOMAIN p : i # k => p[i] # p[k]}

\* the entity after the StakeAdded events of order p were applied in turn
RECURSIVE ApplyAll(_, _)
ApplyAll(call, p) ==
  IF p = <<>> THEN call
  ELSE ApplyAll(AddStake(call, BaseEvents[Head(p)]), Tail(p))

SameTotals(a, b) ==
  a.totalStakeYes = b.totalStakeYes /\ a.totalStakeNo = b.totalStakeNo

\* no handler is pending, the call was created once, and every StakeAdded
\* event was handled by a handler that found the call
AllHandled ==
  /\ handlers = EmptyBag
  /\ deliveries[CreatedIdx] = 1
  /\ Len(callsTable) = 1
  /\ \A j \in StakeEvents : deliveries[j] >= 1 /\ applied[j] = deliveries[j]

OnceEach == \A j \in StakeEvents : deliveries[j] = 1

\* C13: once the handlers of a set of StakeAdded events, each delivered
\* once, have all finished, whatever their interleaving, the totals of the
\* call are its totals at creation plus the YES amounts and plus the NO
\* amounts: the totals that applying the events one after another, in some
\* order, gives.
C13_NoLostUpdate ==
  (AllHandled /\ OnceEach) =>
    \E p \in Orders(StakeEvents) :
      SameTotals(callsTable[1], ApplyAll(NewCall(BaseEvents[CreatedIdx]), p))

\* C14: when the StakeAdded events of a call are handled one after another,
\* each once, the final totals do not depend on the order: they are the
\* totals the order of emission gives.
C14_OrderIndependent ==
  (AllHandled /\ OnceEach) =>
    \A p \in Orders(StakeEvents) :
      SameTotals(callsTable[1], ApplyAll(NewCall(BaseEvents[CreatedIdx]), p))

\* C15: when StakeAdded events are handled one after another and an event
\* is delivered more than once, the totals count its amount once: they are
\* totals that applying every event once gives.
C15_CountedOnce ==
  AllHandled =>
    \E p \in Orders(StakeEvents) :
      SameTotals(callsTable[1], ApplyAll(NewCall(BaseEvents[CreatedIdx]), p))

\* C16: no step makes totalStakeYes or totalStakeNo of a call smaller (they
\* are never negative: a total is a sum of unsigned amounts).
C16_TotalsNeverDecrease ==
  [][\A i \in DOMAIN callsTable :
       /\ NumberLeq(callsTable[i].totalStakeYes, callsTable'[i].totalStakeYes)
       /\ NumberLeq(callsTable[i].totalStakeNo, callsTable'[i].totalStakeNo)]_vars

\* C17: a call is created active, and once an OutcomeSubmitted event for it
\* has been ingested and no handler is pending the call is settled.
C17_SettledByOutcome ==
  /\ \A i \in DOMAIN callsTable : callsTable[i].status \in {"active", "settled"}
  /\ \A j \in BaseEventIdx, i \in DOMAIN callsTable :
       (/\ BaseEvents[j].name = "OutcomeSubmitted"
        /\ deliveries[j] >= 1
        /\ handlers = EmptyBag
        /\ callsTable[i].callOnchainId = BaseEvents[j].callId)
       => callsTable[i].status = "settled"

\* the same service with the events delivered as the chain emits them: the
\* StakeAdded events of a call follow its CallCreated event
NextStakeEmitted ==
  \/ \E j \in BaseEventIdx : DeliverCallCreated(j)
  \/ \E j \in BaseEventIdx : deliveries[CreatedIdx] >= 1 /\ DeliverStakeAdded(j)
  \/ \E j \in BaseEventIdx : deliveries[CreatedIdx] >= 1 /\ DeliverUnhandled(j)
  \/ \E h \in BagToSet(handlers) : FindOneReturn(h)
  \/ \E h \in BagToSet(handlers) : SaveReturn(h)

SpecStakeEmitted == InitStake /\ [][NextStakeEmitted]_vars

\* C36: when the CallCreated event of a call and then one StakeAdded event
\* for it were delivered, once each and nothing else, and both handlers have
\* finished, the call's totals include the StakeAdded amount.
C36_NoStakeDropped ==
  \A j \in StakeEvents :
    (/\ handlers = EmptyBag
     /\ deliveries[CreatedIdx] = 1
     /\ deliveries[j] = 1
     /\ \A k \in StakeEvents \ {j} : deliveries[k] = 0)
    => /\ Len(callsTable) = 1
       /\ SameTotals(callsTable[1],
                     AddStake(NewCall(BaseEvents[CreatedIdx]), BaseEvents[j]))

\* C37: there is at most one Call row per on-chain call id.
C37_OneRowPerCallId ==
  \A i, k \in DOMAIN callsTable :
    callsTable[i].callOnchainId = callsTable[k].callOnchainId => i = k

(***************************************************************************)
(* calculatePayout (outcome_manager/integration.ts and, word for word the  *)
(* same, leaderboard/leaderboard.module.ts).  Its arguments are bigints:   *)
(* arithmetic is exact, `/` truncates, and a zero divisor throws           *)
(* RangeError.                                                             *)
(***************************************************************************)
\* the Stellar indexer constructed and initialized, never started
StellarIdle ==
  /\ config = [startLedger |-> HeadInit, contractIds |-> <<"CA">>,
               maxRetries |-> DefaultMaxRetries]
  /\ isRunning = FALSE
  /\ currentLedger = config.startLedger
  /\ pollInterval = 0
  /\ liveTimers = {}
  /\ startsPending = 0
  /\ cycles = EmptyBag
  /\ head = HeadInit
  /\ store = EmptyBag
  /\ lastLog = "Initialized"
  /\ nPolls = 0
  /\ nStarts = 0

Return(v) == [kind |-> "return", value |-> v]

Throw_(error) == [kind |-> "throw", error |-> error]

\* bigint a / b
BigIntDiv(a, b) == IF b = 0 THEN Throw_("RangeError") ELSE Return(a \div b)

\* calculatePayout with the pools taken the wrong way round
calculatePayout_PoolsSwapped(userStake, userSide, outcome, longTokens, shortTokens) ==
  IF userSide # outcome THEN Return(0)
  ELSE LET winningTokens == IF outcome THEN shortTokens ELSE longTokens
           losingTokens == IF outcome THEN longTokens ELSE shortTokens
           q == BigIntDiv(userStake * losingTokens, winningTokens)
       IN IF q.kind = "throw" THEN q ELSE Return(userStake + q.value)

\* calculatePayout with the bonus rounded up
calculatePayout_RoundUp(userStake, userSide, outcome, longTokens, shortTokens) ==
  IF userSide # outcome THEN Return(0)
  ELSE LET winningTokens == IF outcome THEN longTokens ELSE shortTokens
           losingTokens == IF outcome THEN shortTokens ELSE longTokens
           q == BigIntDiv(userStake * losingTokens + winningTokens - 1, winningTokens)
       IN IF q.kind = "throw" THEN q ELSE Return(userStake + q.value)

\* integration.ts, calculatePayout
calculatePayout(userStake, userSide, outcome, longTokens, shortTokens) ==
  IF userSide # outcome THEN Return(0)
  ELSE LET winningTokens == IF outcome THEN longTokens ELSE shortTokens
           losingTokens == IF outcome THEN shortTokens ELSE longTokens
           q == BigIntDiv(userStake * losingTokens, winningTokens)
       IN IF q.kind = "throw" THEN q ELSE Return(userStake + q.value)

\* leaderboard.module.ts, calculatePayout
LeaderboardCalculatePayout(userStake, userSide, outcome, longTokens, shortTokens) ==
  IF userSide # outcome THEN Return(0)
  ELSE LET winningTokens == IF outcome THEN longTokens ELSE shortTokens
           losingTokens == IF outcome THEN shortTokens ELSE longTokens
           q == BigIntDiv(userStake * losingTokens, winningTokens)
       IN IF q.kind = "throw" THEN q ELSE Return(userStake + q.value)

\* stakes and pool totals tried: 0..MaxAmount and the amounts of the
\* documented example
MaxAmount == 3

Amounts == 0..MaxAmount \cup {100, 500, 1000}

InitPayout ==
  /\ StellarIdle
  /\ BaseIdle
  /\ OracleIdle
  /\ BlockIdle
  /\ fnArgs \in [userStake : Amounts, userSide : BOOLEAN, outcome : BOOLEAN,
                 longTokens : Amounts, shortTokens : Amounts]
  /\ fnResult = NotCalled

CallCalculatePayout ==
  /\ fnResult = NotCalled
  /\ fnResult' = calculatePayout(fnArgs.userStake, fnArgs.userSide, fnArgs.outcome,
                                 fnArgs.longTokens, fnArgs.shortTokens)
  /\ UNCHANGED <<fnArgs, nonCalc>>

CallLeaderboardCalculatePayout ==
  /\ fnResult = NotCalled
  /\ fnResult' = LeaderboardCalculatePayout(fnArgs.userStake, fnArgs.userSide,
                                            fnArgs.outcome, fnArgs.longTokens,
                                            fnArgs.shortTokens)
  /\ UNCHANGED <<fnArgs, nonCalc>>

NextPayout ==
  \/ CallCalculatePayout
  \/ CallLeaderboardCalculatePayout

SpecPayout == InitPayout /\ [][NextPayout]_vars

WinningTotal == IF fnArgs.outcome THEN fnArgs.longTokens ELSE fnArgs.shortTokens

LosingTotal == IF fnArgs.outcome THEN fnArgs.shortTokens ELSE fnArgs.longTokens

\* C18: for a non-zero winning total calculatePayout returns 0 to the losing
\* side, and to the winning side the stake plus the largest whole bonus b
\* with b * winningTotal <= stake * losingTotal.
C18_PayoutMatchesReference ==
  (fnResult # NotCalled /\ WinningTotal # 0) =>
    /\ fnResult.kind = "return"
    /\ fnArgs.userSide # fnArgs.outcome => fnResult.value = 0
    /\ fnArgs.userSide = fnArgs.outcome =>
         LET bonus == fnResult.value - fnArgs.userStake
         IN /\ bonus >= 0
            /\ bonus * WinningTotal <= fnArgs.userStake * LosingTotal
            /\ fnArgs.userStake * LosingTotal < (bonus + 1) * WinningTotal

\* C18 witness: stake 100 on the winning long side with pools 1000/500 was
\* paid 150.
C18_Witness ==
  /\ fnArgs = [userStake |-> 100, userSide |-> TRUE, outcome |-> TRUE,
               longTokens |-> 1000, shortTokens |-> 500]
  /\ fnResult = Return(150)

\* C19: calculatePayout never throws, and on the winning side with a
\* winning total of 0 it returns the stake.
C19_ZeroPoolGuard ==
  fnResult # NotCalled =>
    /\ fnResult.kind = "return"
    /\ (fnArgs.userSide = fnArgs.outcome /\ WinningTotal = 0) =>
         fnResult.value = fnArgs.userStake

(***************************************************************************)
(* calculatePayout over all the stakers of one settled call.  fnArgs holds *)
(* the call (its stakers, its outcome and its two pool totals), fnResult   *)
(* the payouts computed so far, in the order of the stakers.               *)
(***************************************************************************)
MaxStakers == 2

Stakers == [stake : 0..MaxAmount, side : BOOLEAN]

RECURSIVE SumStakes(_, _)
SumStakes(stakers, side) ==
  IF stakers = <<>> THEN 0
  ELSE (IF Head(stakers).side = side THEN Head(stakers).stake ELSE 0)
       + SumStakes(Tail(stakers), side)

RECURSIVE SumPayouts(_)
SumPayouts(results) ==
  IF results = <<>> THEN 0
  ELSE (IF Head(results).kind = "return" THEN Head(results).value ELSE 0)
       + SumPayouts(Tail(results))

\* the winners' stakes sum to the winning total; the losing total is any
\* amount
InitPool ==
  /\ StellarIdle
  /\ BaseIdle
  /\ OracleIdle
  /\ BlockIdle
  /\ \E n \in 1..MaxStakers : \E stakers \in [1..n -> Stakers] :
       \E outcome \in BOOLEAN : \E losingTotal \in Amounts :
         fnArgs = [stakers |-> stakers, outcome |-> outcome,
                   longTokens |-> IF outcome THEN SumStakes(stakers, TRUE)
                                  ELSE losingTotal,
                   shortTokens |-> IF outcome THEN losingTotal
                                   ELSE SumStakes(stakers, FALSE)]
  /\ fnResult = <<>>

\* the next staker's payout is computed
PayoutNextStaker ==
  /\ Len(fnResult) < Len(fnArgs.stakers)
  /\ LET staker == fnArgs.stakers[Len(fnResult) + 1]
     IN fnResult' = Append(fnResult,
                           calculatePayout(staker.stake, staker.side, fnArgs.outcome,
                                           fnArgs.longTokens, fnArgs.shortTokens))
  /\ UNCHANGED <<fnArgs, nonCalc>>

NextPool == PayoutNextStaker

SpecPool == InitPool /\ [][NextPool]_vars

\* C32: for a call whose winners' stakes sum to a non-zero winning total,
\* every payout is returned, the payouts together are at most
\* longTotal + shortTotal, and each winner's payout is at least the stake.
C32_PayoutConservation ==
  WinningTotal # 0 =>
    /\ \A i \in DOMAIN fnResult : fnResult[i].kind = "return"
    /\ SumPayouts(fnResult) <= fnArgs.longTokens + fnArgs.shortTokens
    /\ \A i \in DOMAIN fnResult :
         fnArgs.stakers[i].side = fnArgs.outcome =>
           fnResult[i].value >= fnArgs.stakers[i].stake

\* C32 witness: two winners of one unit each share a losing pool of one, all
\* payouts computed, and the unit of the losing pool stays behind as dust
C32_Witness ==
  /\ Len(fnArgs.stakers) = 2
  /\ Len(fnResult) = 2
  /\ WinningTotal = 2
  /\ LosingTotal = 1
  /\ SumPayouts(fnResult) = 2

(***************************************************************************)
(* buildOutcomeMessage (outcome_manager/integration.ts).  callId,          *)
(* finalPrice and timestamp are bigints, modelled by their binary digits,  *)
(* least significant first, without leading zeros.                         *)
(***************************************************************************)
RECURSIVE FromInt(_)
FromInt(n) == IF n = 0 THEN <<>> ELSE <<n % 2>> \o FromInt(n \div 2)

Ones(k) == [i \in 1..k |-> 1]

\* the digits of b without leading zeros
RECURSIVE Trim(_)
Trim(b) ==
  IF b = <<>> \/ b[Len(b)] = 1 THEN b ELSE Trim(SubSeq(b, 1, Len(b) - 1))

\* the k low digits of v, padded with zeros
LowBits(v, k) == [i \in 1..k |-> IF i <= Len(v) THEN v[i] ELSE 0]

\* data.finalPrice >> 64n
ShiftRight64(v) == IF Len(v) <= 64 THEN <<>> ELSE SubSeq(v, 65, Len(v))

\* data.finalPrice & ((1n << 64n) - 1n)
AndMask64(v) == Trim(LowBits(v, 64))

\* the two's complement of a 64-digit pattern
TwosComplement64(bits) ==
  LowBits(AddC([i \in 1..64 |-> 1 - bits[i]], One, 0), 64)

\* ToBigInt64 with values from 2^63 on clamped to 2^63 - 1
ToBigInt64_Clamped(v) ==
  IF Len(v) >= 64 THEN [neg |-> FALSE, mag |-> Ones(63)]
  ELSE [neg |-> FALSE, mag |-> v]

\* DataView.setBigInt64 converts its argument with ToBigInt64: the value
\* modulo 2^64, read as a signed 64-bit integer
ToBigInt64(v) ==
  LET low == LowBits(v, 64)
  IN IF low[64] = 1 THEN [neg |-> TRUE, mag |-> Trim(TwosComplement64(low))]
     ELSE [neg |-> FALSE, mag |-> Trim(low)]

\* the 8 bytes of a signed 64-bit integer, big-endian (littleEndian = false)
Int64Bytes(x) ==
  LET m == LowBits(x.mag, 64)
      bits == IF x.neg THEN TwosComplement64(m) ELSE m
      byte(k) == bits[8 * k + 1] + 2 * bits[8 * k + 2] + 4 * bits[8 * k + 3]
                 + 8 * bits[8 * k + 4] + 16 * bits[8 * k + 5]
                 + 32 * bits[8 * k + 6] + 64 * bits[8 * k + 7]
                 + 128 * bits[8 * k + 8]
  IN [i \in 1..8 |-> byte(8 - i)]

\* new DataView(buffer.buffer, offset, 8).setBigInt64(0, BigInt(v), false)
setBigInt64(buffer, offset, v) ==
  LET bytes == Int64Bytes(ToBigInt64(v))
  IN [i \in DOMAIN buffer |->
        IF i > offset /\ i <= offset + 8 THEN bytes[i - offset] ELSE buffer[i]]

\* the length of the message
MessageLength == 33

buildOutcomeMessage(data) ==
  LET buffer == [i \in 1..MessageLength |-> 0]
      b1 == setBigInt64(buffer, 0, data.callId)
      b2 == [b1 EXCEPT ![9] = IF data.outcome THEN 1 ELSE 0]
      upper == ShiftRight64(data.finalPrice)
      lower == AndMask64(data.finalPrice)
      b3 == setBigInt64(b2, 9, upper)
      b4 == setBigInt64(b3, 17, lower)
  IN setBigInt64(b4, 25, data.timestamp)

\* small values tried for every field, besides the boundary values
MaxSmall == 1

U64Samples ==
  {FromInt(n) : n \in 0..MaxSmall}
    \cup {FromInt(105), FromInt(1000001), Ones(63), Pow2(63),
          AddC(Pow2(63), One, 0), Ones(64)}

U128Samples ==
  {FromInt(n) : n \in 0..MaxSmall}
    \cup {FromInt(105), Ones(64), Pow2(64), AddC(Pow2(64), Pow2(63), 0),
          Pow2(127), Ones(128)}

InitMessage ==
  /\ StellarIdle
  /\ BaseIdle
  /\ OracleIdle
  /\ BlockIdle
  /\ fnArgs \in [callId : U64Samples, outcome : BOOLEAN,
                 finalPrice : U128Samples, timestamp : U64Samples]
  /\ fnResult = NotCalled

CallBuildOutcomeMessage ==
  /\ fnResult = NotCalled
  /\ fnResult' = Return(buildOutcomeMessage(fnArgs))
  /\ UNCHANGED <<fnArgs, nonCalc>>

NextMessage == CallBuildOutcomeMessage

SpecMessage == InitMessage /\ [][NextMessage]_vars

\* byte k (0 the least significant) of the unsigned number v
ByteAt(v, k) ==
  LET d(i) == IF i <= Len(v) THEN v[i] ELSE 0
  IN d(8 * k + 1) + 2 * d(8 * k + 2) + 4 * d(8 * k + 3) + 8 * d(8 * k + 4)
     + 16 * d(8 * k + 5) + 32 * d(8 * k + 6) + 64 * d(8 * k + 7)
     + 128 * d(8 * k + 8)

\* v as n bytes, unsigned, big-endian
UnsignedBE(v, n) == [i \in 1..n |-> ByteAt(v, n - i)]

\* C20: buildOutcomeMessage returns 33 bytes: callId as 8 bytes unsigned
\* big-endian, one byte 1 or 0 for the outcome, finalPrice as 16 bytes
\* unsigned big-endian (upper 64 bits, then lower 64 bits) and timestamp as
\* 8 bytes unsigned big-endian, also for values from 2^63 on.
C20_MessageLayout ==
  fnResult # NotCalled =>
    LET m == fnResult.value
    IN /\ fnResult.kind = "return"
       /\ Len(m) = 33
       /\ SubSeq(m, 1, 8) = UnsignedBE(fnArgs.callId, 8)
       /\ m[9] = (IF fnArgs.outcome THEN 1 ELSE 0)
       /\ SubSeq(m, 10, 25) = UnsignedBE(fnArgs.finalPrice, 16)
       /\ SubSeq(m, 26, 33) = UnsignedBE(fnArgs.timestamp, 8)

\* C20 witness: callId 2^64 - 1, finalPrice 2^128 - 1 and timestamp 2^63
\* were written as 0xFF.., 0xFF.. and 0x80 00...
C20_Witness ==
  /\ fnArgs = [callId |-> Ones(64), outcome |-> TRUE, finalPrice |-> Ones(128),
               timestamp |-> Pow2(63)]
  /\ fnResult = Return([i \in 1..8 |-> 255] \o <<1>> \o [i \in 1..16 |-> 255]
                       \o <<128, 0, 0, 0, 0, 0, 0, 0>>)

(***************************************************************************)
(* OutcomeManagerClient.buildSignatureMessage (leaderboard.module.ts),     *)
(* which writes the same fields with Buffer.writeBigUInt64BE.              *)
(***************************************************************************)
\* buffer.writeBigUInt64BE(v, offset): a value outside [0, 2^64) throws
\* ERR_OUT_OF_RANGE, any other is written as 8 bytes, unsigned, big-endian
writeBigUInt64BE(buffer, v, offset) ==
  IF Len(Trim(v)) > 64 THEN Throw_("RangeError [ERR_OUT_OF_RANGE]")
  ELSE Return([i \in DOMAIN buffer |->
                 IF i > offset /\ i <= offset + 8
                 THEN UnsignedBE(v, 8)[i - offset] ELSE buffer[i]])

buildSignatureMessage(message) ==
  LET buffer == [i \in 1..MessageLength |-> 0]
      r1 == writeBigUInt64BE(buffer, message.call_id, 0)
      b2 == [r1.value EXCEPT ![9] = IF message.outcome THEN 1 ELSE 0]
      upper == ShiftRight64(message.final_price)
      lower == AndMask64(message.final_price)
      r3 == writeBigUInt64BE(b2, upper, 9)
      r4 == writeBigUInt64BE(r3.value, lower, 17)
      r5 == writeBigUInt64BE(r4.value, message.timestamp, 25)
  IN IF r1.kind = "throw" THEN r1
     ELSE IF r3.kind = "throw" THEN r3
     ELSE IF r4.kind = "throw" THEN r4
     ELSE r5

\* the arguments tried: the in-range samples, and 2^64 for callId and
\* timestamp and 2^128 for finalPrice
InitBuilders ==
  /\ StellarIdle
  /\ BaseIdle
  /\ OracleIdle
  /\ BlockIdle
  /\ fnArgs \in [callId : U64Samples \cup {Pow2(64)}, outcome : BOOLEAN,
                 finalPrice : U128Samples \cup {Pow2(128)},
                 timestamp : U64Samples \cup {Pow2(64)}]
  /\ fnResult = NotCalled

CallBuildSignatureMessage ==
  /\ fnResult = NotCalled
  /\ fnResult' = buildSignatureMessage([call_id |-> fnArgs.callId,
                                        outcome |-> fnArgs.outcome,
                                        final_price |-> fnArgs.finalPrice,
                                        timestamp |-> fnArgs.timestamp])
  /\ UNCHANGED <<fnArgs, nonCalc>>

NextBuilders ==
  \/ CallBuildOutcomeMessage
  \/ CallBuildSignatureMessage

SpecBuilders == InitBuilders /\ [][NextBuilders]_vars

InRange(args) ==
  /\ Len(args.callId) <= 64
  /\ Len(args.finalPrice) <= 128
  /\ Len(args.timestamp) <= 64

\* C39: whichever builder was called, the other one gives the same result
\* for the same arguments: the same 33 bytes for arguments in range, and for
\* arguments out of range either the same bytes or a rejection by both.
C39_BuildersEquivalent ==
  fnResult # NotCalled =>
    /\ fnResult = Return(buildOutcomeMessage(fnArgs))
    /\ fnResult = buildSignatureMessage([call_id |-> fnArgs.callId,
                                         outcome |-> fnArgs.outcome,
                                         final_price |-> fnArgs.finalPrice,
                                         timestamp |-> fnArgs.timestamp])
    /\ InRange(fnArgs) => Len(fnResult.value) = MessageLength

(***************************************************************************)
(* canSettleCall (integration.ts and leaderboard.module.ts).               *)
(***************************************************************************)
\* canSettleCall with the comparison the wrong way round
canSettleCall_Reversed(currentTimestamp, endTimestamp) ==
  Return(currentTimestamp <= endTimestamp)

\* canSettleCall with a strict comparison
canSettleCall_Strict(currentTimestamp, endTimestamp) ==
  Return(currentTimestamp > endTimestamp)

\* integration.ts, canSettleCall
canSettleCall(currentTimestamp, endTimestamp) ==
  Return(currentTimestamp >= endTimestamp)

\* leaderboard.module.ts, canSettleCall
LeaderboardCanSettleCall(currentTimestamp, call_end_ts) ==
  Return(currentTimestamp >= call_end_ts)

\* timestamps tried: 0..MaxTs and the timestamps of the documented example
MaxTs == 4

Timestamps == 0..MaxTs \cup {999999, 1000000, 1000001}

InitSettle ==
  /\ StellarIdle
  /\ BaseIdle
  /\ OracleIdle
  /\ BlockIdle
  /\ fnArgs \in [currentTimestamp : Timestamps, endTimestamp : Timestamps]
  /\ fnResult = NotCalled

CallCanSettleCall ==
  /\ fnResult = NotCalled
  /\ fnResult' = canSettleCall(fnArgs.currentTimestamp, fnArgs.endTimestamp)
  /\ UNCHANGED <<fnArgs, nonCalc>>

CallLeaderboardCanSettleCall ==
  /\ fnResult = NotCalled
  /\ fnResult' = LeaderboardCanSettleCall(fnArgs.currentTimestamp,
                                          fnArgs.endTimestamp)
  /\ UNCHANGED <<fnArgs, nonCalc>>

NextSettle ==
  \/ CallCanSettleCall
  \/ CallLeaderboardCanSettleCall

SpecSettle == InitSettle /\ [][NextSettle]_vars

\* C23: canSettleCall(now, endTs) is false for every now before endTs (at
\* endTs - 1 in particular), true at endTs itself and true for every later
\* now.
C23_SettleExactlyFromEnd ==
  fnResult # NotCalled =>
    /\ fnResult.kind = "return"
    /\ fnArgs.currentTimestamp + 1 = fnArgs.endTimestamp => fnResult.value = FALSE
    /\ fnArgs.currentTimestamp = fnArgs.endTimestamp => fnResult.value = TRUE
    /\ fnResult.value = TRUE <=>
         \E later \in 0..1000001 :
           fnArgs.currentTimestamp = fnArgs.endTimestamp + later

\* C23 witness: canSettleCall(1000000, 1000000) returned true
C23_Witness ==
  /\ fnArgs = [currentTimestamp |-> 1000000, endTimestamp |-> 1000000]
  /\ fnResult = Return(TRUE)

(***************************************************************************)
(* The oracle (oracle-example.ts): OracleService.settleCall, the           *)
(* AuditTrail it writes and the OracleMonitor that calls it on a timer.    *)
(* The price source and the outcome function of a call are supplied by the *)
(* caller: as in the example each call has a price source of its own that *)
(* resolves to one price (or rejects), and the outcome function returns    *)
(* `price > 100n` (or throws).  Signing (prepareOutcomeSubmission)         *)
(* resolves or rejects.                                                    *)
(***************************************************************************)
\* the clock runs up to MaxNow
MaxNow == 1

\* interval callbacks run in one behaviour
MaxTicks == 2

\* registerCall calls in one behaviour
MaxRegisters == 2

\* startMonitoring calls in one behaviour
MaxMonitorStarts == 2

\* the price the price source of a call resolves to: 110n for the first
\* call of the example, 95n for the second
priceSource(callId) == IF callId = 1 THEN 110 ELSE 95

Prices == {priceSource(callId) : callId \in CallIds}

\* the example's outcomeLogic: price > 100n
outcomeLogic(price) == price > 100

\* Map.set(callId, e): a new key goes last, a known key keeps its place
MapSet(m, callId, e) ==
  IF \E i \in DOMAIN m : m[i].callId = callId
  THEN [i \in DOMAIN m |-> IF m[i].callId = callId THEN e ELSE m[i]]
  ELSE Append(m, e)

\* Map.delete(callId)
MapDelete(m, callId) == SelectSeq(m, LAMBDA e : e.callId # callId)

MapHas(m, callId) == \E i \in DOMAIN m : m[i].callId = callId

\* the entry settleCall adds to the audit trail; oracleAddress and signature
\* are functions of the key pair and of these fields
AuditEntry(callId, outcome, finalPrice, currentTimestamp) ==
  [timestamp |-> currentTimestamp, callId |-> callId, outcome |-> outcome,
   finalPrice |-> finalPrice]

\* what prepareOutcomeSubmission resolves to
Submission(callId, outcome, finalPrice, timestamp) ==
  [call_id |-> callId, outcome |-> outcome, final_price |-> finalPrice,
   timestamp |-> timestamp]

\* the pending map after a tick's attempt on callId, with the call removed
\* whether or not it was settled
PendingAfter_RemoveAlways(callId, settled) == MapDelete(pendingCalls, callId)

\* the pending map after a tick's attempt on callId: delete() follows the
\* awaited settleCall inside the try block
PendingAfter(callId, settled) ==
  IF settled THEN MapDelete(pendingCalls, callId) ELSE pendingCalls

\* the tick goes on to the next call of callsToSettle, or ends
TickAdvance(t) ==
  ticks' = (IF Len(t.calls) = 1 THEN ticks (-) SetToBag({t})
            ELSE Replace(ticks, t, [t EXCEPT !.calls = Tail(@), !.pc = "price",
                                             !.finalPrice = 0,
                                             !.outcome = FALSE]))

\* registerCall: the object it stores holds the priceSource and
\* outcomeLogic closures of this call of registerCall; `reg` stands for them
RegisterCall(callId, endTimestamp) ==
  /\ nRegistered[1] + nRegistered[2] < MaxRegisters
  /\ nRegistered' = [nRegistered EXCEPT ![callId] = @ + 1]
  /\ pendingCalls' = MapSet(pendingCalls, callId,
                            [callId |-> callId, endTimestamp |-> endTimestamp,
                             reg |-> nRegistered'[callId]])
  /\ UNCHANGED <<now, settlementInterval, liveIntervals, ticks, auditTrail,
                 signedOutcomes, nTicks, nMonitorStarts, calcVars, nonOracle>>

StartMonitoring ==
  /\ nMonitorStarts < MaxMonitorStarts
  /\ nMonitorStarts' = nMonitorStarts + 1
  /\ liveIntervals' = liveIntervals + 1
  /\ settlementInterval' = TRUE
  /\ UNCHANGED <<now, pendingCalls, ticks, auditTrail, signedOutcomes, nTicks,
                 nRegistered, calcVars, nonOracle>>

StopMonitoring ==
  IF ~settlementInterval
  THEN UNCHANGED vars
  ELSE /\ liveIntervals' = liveIntervals - 1
       /\ settlementInterval' = FALSE
       /\ UNCHANGED <<now, pendingCalls, ticks, auditTrail, signedOutcomes,
                      nTicks, nRegistered, nMonitorStarts, calcVars, nonOracle>>

ClockAdvance ==
  /\ now < MaxNow
  /\ now' = now + 1
  /\ UNCHANGED <<pendingCalls, settlementInterval, liveIntervals, ticks,
                 auditTrail, signedOutcomes, nTicks, nRegistered,
                 nMonitorStarts, calcVars, nonOracle>>

\* the calls a callback starting now finds due, in the order of the map
CallsToSettle == SelectSeq(pendingCalls, LAMBDA c : now >= c.endTimestamp)

\* the interval callback, up to its first await
MonitorTick ==
  /\ liveIntervals > 0
  /\ nTicks < MaxTicks
  /\ nTicks' = nTicks + 1
  /\ ticks' = (IF CallsToSettle = <<>> THEN ticks
               ELSE ticks (+) SetToBag({[now |-> now, calls |-> CallsToSettle,
                                         pc |-> "price", finalPrice |-> 0,
                                         outcome |-> FALSE]}))
  /\ UNCHANGED <<now, pendingCalls, settlementInterval, liveIntervals,
                 auditTrail, signedOutcomes, nRegistered, nMonitorStarts,
                 calcVars, nonOracle>>

\* the callback resumed after priceSource() resolved: outcomeLogic, then
\* settleCall up to `await prepareOutcomeSubmission`
PriceResolve(t, logicOk) ==
  /\ t \in BagToSet(ticks)
  /\ t.pc = "price"
  /\ IF logicOk /\ canSettleCall(t.now, t.calls[1].endTimestamp).value
     THEN ticks' = Replace(ticks, t, [t EXCEPT !.pc = "sign",
                                                !.finalPrice = priceSource(t.calls[1].callId),
                                                !.outcome = outcomeLogic(priceSource(t.calls[1].callId))])
     ELSE TickAdvance(t)
  /\ pendingCalls' = PendingAfter(t.calls[1].callId, FALSE)
  /\ UNCHANGED <<now, settlementInterval, liveIntervals, auditTrail,
                 signedOutcomes, nTicks, nRegistered, nMonitorStarts,
                 calcVars, nonOracle>>

\* the callback resumed after priceSource() rejected
PriceReject(t) ==
  /\ t \in BagToSet(ticks)
  /\ t.pc = "price"
  /\ TickAdvance(t)
  /\ pendingCalls' = PendingAfter(t.calls[1].callId, FALSE)
  /\ UNCHANGED <<now, settlementInterval, liveIntervals, auditTrail,
                 signedOutcomes, nTicks, nRegistered, nMonitorStarts,
                 calcVars, nonOracle>>

\* settleCall resumed after the submission was signed: the audit entry, and
\* back in the callback the delete
SignResolve(t) ==
  /\ t \in BagToSet(ticks)
  /\ t.pc = "sign"
  /\ signedOutcomes' = Append(signedOutcomes,
       Submission(t.calls[1].callId, t.outcome, t.finalPrice, t.now))
  /\ auditTrail' = Append(auditTrail,
       AuditEntry(t.calls[1].callId, t.outcome, t.finalPrice, t.now))
  /\ pendingCalls' = PendingAfter(t.calls[1].callId, TRUE)
  /\ TickAdvance(t)
  /\ UNCHANGED <<now, settlementInterval, liveIntervals, nTicks, nRegistered,
                 nMonitorStarts, calcVars, nonOracle>>

\* settleCall resumed after signing failed
SignReject(t) ==
  /\ t \in BagToSet(ticks)
  /\ t.pc = "sign"
  /\ TickAdvance(t)
  /\ pendingCalls' = PendingAfter(t.calls[1].callId, FALSE)
  /\ UNCHANGED <<now, settlementInterval, liveIntervals, auditTrail,
                 signedOutcomes, nTicks, nRegistered, nMonitorStarts,
                 calcVars, nonOracle>>

InitMonitor ==
  /\ StellarIdle
  /\ BaseIdle
  /\ CalcIdle
  /\ OracleIdle
  /\ BlockIdle

NextMonitor ==
  \/ \E callId \in CallIds, endTimestamp \in 1..MaxNow :
       RegisterCall(callId, endTimestamp)
  \/ StartMonitoring
  \/ StopMonitoring
  \/ ClockAdvance
  \/ MonitorTick
  \/ \E t \in BagToSet(ticks), logicOk \in BOOLEAN : PriceResolve(t, logicOk)
  \/ \E t \in BagToSet(ticks) : PriceReject(t)
  \/ \E t \in BagToSet(ticks) : SignResolve(t)
  \/ \E t \in BagToSet(ticks) : SignReject(t)

SpecMonitor == InitMonitor /\ [][NextMonitor]_vars

\* how many elements of the sequence q satisfy Test
CountSeq(q, Test(_)) == Cardinality({i \in DOMAIN q : Test(q[i])})

\* C25: the monitor removes a call from the pending map only in the step in
\* which that call's settlement succeeded; a tick whose price source, outcome
\* function or settleCall fails for a call leaves the pending map as it is
\* and goes on with the other due calls of the tick; and each new tick takes
\* up every call that is pending and due.
C25_RemovedOnlyAfterSuccess ==
  [][/\ \A id \in CallIds :
          (MapHas(pendingCalls, id) /\ ~MapHas(pendingCalls', id)) =>
            /\ Len(signedOutcomes') = Len(signedOutcomes) + 1
            /\ signedOutcomes'[Len(signedOutcomes')].call_id = id
     /\ \A t \in BagToSet(ticks) :
          (PriceReject(t) \/ SignReject(t)
             \/ PriceResolve(t, FALSE)) =>
            /\ pendingCalls' = pendingCalls
            /\ Len(t.calls) > 1 =>
                 \E u \in BagToSet(ticks') :
                   u.calls = Tail(t.calls) /\ u.pc = "price"
     /\ MonitorTick =>
          \A i \in DOMAIN pendingCalls :
            now >= pendingCalls[i].endTimestamp =>
              \E u \in BagToSet(ticks') :
                u.now = now /\ \E j \in DOMAIN u.calls : u.calls[j] = pendingCalls[i]
    ]_vars

\* C34: a registration leaves the pending map only in the step in which a
\* settlement of that very registration succeeded: whenever a call id stops
\* being pending, the step signs an outcome in a tick that had taken up the
\* entry the map held.
C34_RegistrationNeverLost ==
  [][\A i \in DOMAIN pendingCalls :
       ~MapHas(pendingCalls', pendingCalls[i].callId) =>
         \E t \in BagToSet(ticks) :
           /\ SignResolve(t)
           /\ t.calls[1] = pendingCalls[i]]_vars

\* C38: at most one settlement timer is live at any time, and while the
\* monitor is stopped (its handle is null: before the first startMonitoring
\* and after every stopMonitoring) no timer is live, so that no tick can run
\* until startMonitoring is called.
C38_StopEndsTicks ==
  /\ liveIntervals <= 1
  /\ ~settlementInterval => liveIntervals = 0

\* C25 witness: calls 1 and 2 were registered once each, both were due in
\* one tick, call 1 failed and is still pending, and the tick is now signing
\* call 2.
C25_Witness ==
  /\ nRegistered = [id \in CallIds |-> 1]
  /\ Len(pendingCalls) = 2
  /\ pendingCalls[1].callId = 1
  /\ auditTrail = <<>>
  /\ \E t \in BagToSet(ticks) :
       /\ t.calls = <<pendingCalls[2]>>
       /\ t.pc = "sign"
       /\ t.now >= pendingCalls[1].endTimestamp

\* C26: for a call registered once, the monitor produces at most one signed
\* outcome and appends at most one audit entry, whatever the interleaving of
\* its ticks.
C26_NoDuplicateSettlement ==
  \A id \in CallIds :
    nRegistered[id] <= 1 =>
      /\ CountSeq(signedOutcomes, LAMBDA o : o.call_id = id) <= 1
      /\ CountSeq(auditTrail, LAMBDA e : e.callId = id) <= 1

\* C27: the audit trail only grows at its end, and every attempt to settle a
\* call (a settleCall that ends in a signed outcome or in a failure) appends
\* one entry.
C27_AuditAppendOnly ==
  [][/\ Len(auditTrail') >= Len(auditTrail)
     /\ SubSeq(auditTrail', 1, Len(auditTrail)) = auditTrail
     /\ \A t \in BagToSet(ticks) :
          (SignResolve(t) \/ SignReject(t)) =>
            Len(auditTrail') = Len(auditTrail) + 1
    ]_vars

(***************************************************************************)
(* One direct call of OracleService.settleCall.                            *)
(***************************************************************************)
\* settleCall is suspended at `await prepareOutcomeSubmission(...)`
Signing == [kind |-> "signing"]

InitSettleCall ==
  /\ StellarIdle
  /\ BaseIdle
  /\ OracleIdle
  /\ BlockIdle
  /\ fnArgs \in [callId : CallIds, outcome : BOOLEAN, finalPrice : Prices,
                 currentTimestamp : 0..MaxNow, callEndTimestamp : 0..MaxNow]
  /\ fnResult = NotCalled

\* settleCall up to its first await: the eligibility test throws
SettleCall ==
  /\ fnResult = NotCalled
  /\ fnResult' =
       (IF ~canSettleCall(fnArgs.currentTimestamp, fnArgs.callEndTimestamp).value
        THEN Throw_("Error: cannot be settled yet")
        ELSE Signing)
  /\ UNCHANGED <<fnArgs, oracleVars, nonOracle>>

\* settleCall resumed after the submission was signed
SettleCallSigned ==
  /\ fnResult = Signing
  /\ signedOutcomes' = Append(signedOutcomes,
       Submission(fnArgs.callId, fnArgs.outcome, fnArgs.finalPrice,
                  fnArgs.currentTimestamp))
  /\ auditTrail' = Append(auditTrail,
       AuditEntry(fnArgs.callId, fnArgs.outcome, fnArgs.finalPrice,
                  fnArgs.currentTimestamp))
  /\ fnResult' = Return(signedOutcomes'[Len(signedOutcomes')])
  /\ UNCHANGED <<fnArgs, now, pendingCalls, settlementInterval, liveIntervals,
                 ticks, nTicks, nRegistered, nMonitorStarts, nonOracle>>

\* settleCall resumed after signing failed
SettleCallSignFailed ==
  /\ fnResult = Signing
  /\ fnResult' = Throw_("sign")
  /\ UNCHANGED <<fnArgs, oracleVars, nonOracle>>

NextSettleCall ==
  \/ SettleCall
  \/ SettleCallSigned
  \/ SettleCallSignFailed

SpecSettleCall == InitSettleCall /\ [][NextSettleCall]_vars

\* C24: settleCall for a call that is not yet eligible (currentTimestamp <
\* callEndTimestamp) does not raise, signs nothing and adds no audit entry.
C24_IneligibleRejectedWithoutRaise ==
  (fnResult # NotCalled /\ fnArgs.currentTimestamp < fnArgs.callEndTimestamp) =>
    /\ fnResult.kind # "throw"
    /\ signedOutcomes = <<>>
    /\ auditTrail = <<>>

SignatureBytes == 64

\* isValidPublicKeyFormat: Ed25519 public keys are exactly 32 bytes
PublicKeyBytes == 32

isValidSignatureFormat(signatureLength) == signatureLength = SignatureBytes

isValidPublicKeyFormat(publicKeyLength) == publicKeyLength = PublicKeyBytes

\* what the library's check can do with these arguments: it throws, or it
\* answers; it answers true only for a well-formed genuine signature
CheckOutcomes(args) ==
  {Throw_("Error"), Return(FALSE)}
    \cup (IF /\ isValidSignatureFormat(args.signatureLength)
             /\ isValidPublicKeyFormat(args.publicKeyLength)
             /\ args.genuine
          THEN {Return(TRUE)} ELSE {})

\* the try block without its catch
TryCheck_NoCatch(outcome) == outcome

\* try { return check(...) } catch (e) { return false }
TryCheck(outcome) == IF outcome.kind = "throw" THEN Return(FALSE) ELSE outcome

\* verifyOutcomeSignature is suspended at `await libsodium.ready`
AwaitingReady == [kind |-> "awaitingReady"]

\* lengths tried around the two formats: up to MaxSlack bytes off
MaxSlack == 1

InitVerify ==
  /\ StellarIdle
  /\ BaseIdle
  /\ OracleIdle
  /\ BlockIdle
  /\ fnArgs \in [messageLength : {0, MessageLength},
                 signatureLength : {0} \cup (SignatureBytes - MaxSlack)
                                             ..(SignatureBytes + MaxSlack),
                 publicKeyLength : {0} \cup (PublicKeyBytes - MaxSlack)
                                             ..(PublicKeyBytes + MaxSlack),
                 genuine : BOOLEAN]
  /\ fnResult = NotCalled

\* verifyOutcomeSignature up to its await
VerifyOutcomeSignature ==
  /\ fnResult = NotCalled
  /\ fnResult' = AwaitingReady
  /\ UNCHANGED <<fnArgs, nonCalc>>

\* verifyOutcomeSignature resumed: the check inside try/catch
VerifyResume(outcome) ==
  /\ fnResult = AwaitingReady
  /\ outcome \in CheckOutcomes(fnArgs)
  /\ fnResult' = TryCheck(outcome)
  /\ UNCHANGED <<fnArgs, nonCalc>>

NextVerify ==
  \/ VerifyOutcomeSignature
  \/ \E outcome \in CheckOutcomes(fnArgs) : VerifyResume(outcome)

SpecVerify == InitVerify /\ [][NextVerify]_vars

MaxBlockPolls == 3

\* start() calls on BaseIndexerService in one behaviour
MaxBaseStarts == 2

\* the logs the contract emitted on the Base chain, one per block
BlockLogs ==
  <<[block |-> 1, txHash |-> "b1", eventType |-> "CallCreated"],
    [block |-> 2, txHash |-> "b2", eventType |-> "StakeAdded"],
    [block |-> 3, txHash |-> "b3", eventType |-> "OutcomeSubmitted"]>>

LastBlock == BlockLogs[Len(BlockLogs)].block

Returned(op) == [op |-> op, result |-> "returned"]

Raised(op) == [op |-> op, result |-> "raised"]

\* fetchAndProcessEvents(): the try block only logs the cursor
BaseFetchAndProcessEvents ==
  /\ nBlockPolls' = nBlockPolls + 1
  /\ UNCHANGED <<currentBlock, store>>

\* start(); without a config `this.config.pollIntervalMs` in pollForEvents
\* throws before setInterval is called
BaseStart ==
  IF baseIsRunning
  THEN /\ lastCall' = (IF baseConfig = Undefined THEN Returned("base.start")
                       ELSE lastCall)
       /\ UNCHANGED <<baseIsRunning, currentBlock, baseConfig, basePollInterval,
                      baseTimers, blockHead, nBlockPolls, nBaseStarts,
                      stellarVars, baseVars, calcVars, oracleVars>>
  ELSE /\ nBaseStarts < MaxBaseStarts
       /\ nBaseStarts' = nBaseStarts + 1
       /\ baseIsRunning' = TRUE
       /\ IF baseConfig = Undefined
          THEN /\ lastCall' = Raised("base.start")
               /\ UNCHANGED <<basePollInterval, baseTimers, nBlockPolls,
                              currentBlock, store>>
          ELSE /\ nBlockPolls < MaxBlockPolls
               /\ basePollInterval' = TRUE
               /\ baseTimers' = baseTimers + 1
               /\ BaseFetchAndProcessEvents
               /\ UNCHANGED lastCall
       /\ UNCHANGED <<baseConfig, blockHead, isRunning, currentLedger, config,
                      pollInterval, liveTimers, startsPending, cycles, head,
                      lastLog, nPolls, nStarts, baseVars, calcVars, oracleVars>>

\* stop(), and onModuleDestroy(), which awaits it
BaseStop ==
  /\ baseIsRunning' = FALSE
  /\ baseTimers' = (IF baseIsRunning /\ basePollInterval THEN 0 ELSE baseTimers)
  /\ lastCall' = (IF baseConfig = Undefined THEN Returned("base.stop")
                  ELSE lastCall)
  /\ UNCHANGED <<currentBlock, baseConfig, basePollInterval, blockHead,
                 nBlockPolls, nBaseStarts, stellarVars, baseVars, calcVars,
                 oracleVars>>

\* the setInterval callback
BaseTick ==
  /\ baseTimers > 0
  /\ IF ~baseIsRunning
     THEN UNCHANGED vars
     ELSE /\ nBlockPolls < MaxBlockPolls
          /\ BaseFetchAndProcessEvents
          /\ UNCHANGED <<baseIsRunning, baseConfig, basePollInterval,
                         baseTimers, blockHead, nBaseStarts, lastCall,
                         isRunning, currentLedger, config, pollInterval,
                         liveTimers, startsPending, cycles, head, lastLog,
                         nPolls, nStarts, baseVars, calcVars, oracleVars>>

\* the Base chain produces a block
BlockHeadAdvance ==
  /\ blockHead < LastBlock
  /\ blockHead' = blockHead + 1
  /\ UNCHANGED <<baseIsRunning, currentBlock, baseConfig, basePollInterval,
                 baseTimers, nBlockPolls, nBaseStarts, lastCall, stellarVars,
                 baseVars, calcVars, oracleVars>>

\* after initialize(config): `this.currentBlock = this.config.startBlock || 1`
InitBlock ==
  /\ StellarIdle
  /\ BaseIdle
  /\ CalcIdle
  /\ OracleIdle
  /\ baseConfig \in {[startBlock |-> b, maxRetries |-> DefaultMaxRetries] :
                       b \in 0..LastBlock}
  /\ currentBlock = (IF baseConfig.startBlock # 0 THEN baseConfig.startBlock
                     ELSE 1)
  /\ baseIsRunning = FALSE
  /\ basePollInterval = FALSE
  /\ baseTimers = 0
  /\ blockHead = 1
  /\ nBlockPolls = 0
  /\ nBaseStarts = 0
  /\ lastCall = NoCallYet

NextBlock ==
  \/ BaseStart
  \/ BaseStop
  \/ BaseTick
  \/ BlockHeadAdvance

SpecBlock == InitBlock /\ [][NextBlock]_vars

\* C29: a poll cycle of BaseIndexerService over [currentBlock, head] stores
\* the contract's logs of that range under chain BASE and advances
\* currentBlock to head + 1.
C29_BlockCycleStoresAndAdvances ==
  [][(nBlockPolls' = nBlockPolls + 1 /\ currentBlock <= blockHead) =>
       /\ currentBlock' = blockHead + 1
       /\ \A i \in DOMAIN BlockLogs :
            BlockLogs[i].block \in currentBlock..blockHead =>
              \E row \in BagToSet(store') :
                /\ row.chain = BASE
                /\ row.txHash = BlockLogs[i].txHash
                /\ row.eventType = BlockLogs[i].eventType
    ]_vars

(***************************************************************************)
(* The two polling services when initialize() was never called.            *)
(***************************************************************************)
InitInert ==
  /\ config = Undefined
  /\ isRunning = FALSE
  /\ currentLedger = 0
  /\ pollInterval = 0
  /\ liveTimers = {}
  /\ startsPending = 0
  /\ cycles = EmptyBag
  /\ head = HeadInit
  /\ store = EmptyBag
  /\ lastLog = "None"
  /\ nPolls = 0
  /\ nStarts = 0
  /\ BaseIdle
  /\ CalcIdle
  /\ OracleIdle
  /\ baseConfig = Undefined
  /\ baseIsRunning = FALSE
  /\ currentBlock = 0
  /\ basePollInterval = FALSE
  /\ baseTimers = 0
  /\ blockHead = 1
  /\ nBlockPolls = 0
  /\ nBaseStarts = 0
  /\ lastCall = NoCallYet

\* StellarIndexerService.onModuleInit()
OnModuleInit ==
  IF config = Undefined
  THEN /\ lastLog' = "NotInitialized"
       /\ lastCall' = Returned("stellar.onModuleInit")
       /\ UNCHANGED <<isRunning, currentLedger, config, pollInterval,
                      liveTimers, startsPending, cycles, head, store, nPolls,
                      nStarts, baseIsRunning, currentBlock, baseConfig,
                      basePollInterval, baseTimers, blockHead, nBlockPolls,
                      nBaseStarts, baseVars, calcVars, oracleVars>>
  ELSE Start

\* StellarIndexerService.start() without a config: `this.config.startLedger`
\* throws after isRunning was set
StartUninitialized ==
  /\ config = Undefined
  /\ IF isRunning
     THEN /\ lastLog' = "AlreadyRunning"
          /\ lastCall' = Returned("stellar.start")
          /\ UNCHANGED <<isRunning, nStarts>>
     ELSE /\ nStarts < MaxStarts
          /\ nStarts' = nStarts + 1
          /\ isRunning' = TRUE
          /\ lastLog' = "Starting"
          /\ lastCall' = Raised("stellar.start")
  /\ UNCHANGED <<currentLedger, config, pollInterval, liveTimers,
                 startsPending, cycles, head, store, nPolls, baseIsRunning,
                 currentBlock, baseConfig, basePollInterval, baseTimers,
                 blockHead, nBlockPolls, nBaseStarts, baseVars, calcVars,
                 oracleVars>>

\* BaseIndexerService.onModuleInit()
BaseOnModuleInit ==
  IF baseConfig = Undefined
  THEN /\ lastCall' = Returned("base.onModuleInit")
       /\ UNCHANGED <<baseIsRunning, currentBlock, baseConfig, basePollInterval,
                      baseTimers, blockHead, nBlockPolls, nBaseStarts,
                      stellarVars, baseVars, calcVars, oracleVars>>
  ELSE BaseStart

NextInert ==
  \/ OnModuleInit
  \/ StartUninitialized
  \/ Stop
  \/ BaseOnModuleInit
  \/ BaseStart
  \/ BaseStop

SpecInert == InitInert /\ [][NextInert]_vars

\* C28: on a service that was never initialized no lifecycle call raises,
\* none enters Running, none creates a timer and none issues an RPC.
C28_UninitializedStaysInert ==
  /\ lastCall.result # "raised"
  /\ ~isRunning
  /\ ~baseIsRunning
  /\ liveTimers = {}
  /\ baseTimers = 0
  /\ startsPending = 0
  /\ cycles = EmptyBag
  /\ nPolls = 0
  /\ nBlockPolls = 0

(***************************************************************************)
(* getStellarEventStats, called once while the Stellar indexer runs.       *)
(***************************************************************************)
\* callRepository.find({where: {chain}}): the rows of one chain, as a bag
FindByChain(st, chain) ==
  LET rows == {r \in BagToSet(st) : r.chain = chain}
  IN [r \in rows |-> CopiesIn(r, st)]

\* getStellarEventStats is suspended at `await this.callRepository.find(...)`
\* and the query found these rows
Found(events) == [kind |-> "found", events |-> events]

\* the statistics built from the rows found and from the cursor
StatsOf(events, cursor) ==
  LET types == {r.eventType : r \in BagToSet(events)}
  IN [totalEvents |-> BagCardinality(events),
      eventsByType |->
        [ty \in types |->
           Copies(events, {r \in BagToSet(events) : r.eventType = ty})],
      lastIndexedLedger |-> cursor]

\* getStellarEventStats up to the answer of the query
StatsFind ==
  /\ fnResult = NotCalled
  /\ fnResult' = Found(FindByChain(store, STELLAR))
  /\ UNCHANGED <<fnArgs, nonCalc>>

\* getStellarEventStats resumed
StatsReturn ==
  /\ fnResult.kind = "found"
  /\ fnResult' = Return(StatsOf(fnResult.events, currentLedger))
  /\ UNCHANGED <<fnArgs, nonCalc>>

InitStats ==
  /\ StellarIdle
  /\ BaseIdle
  /\ CalcIdle
  /\ OracleIdle
  /\ BlockIdle

NextStats ==
  \/ Start
  \/ Stop
  \/ \E t \in TimerIds : Tick(t)
  \/ \E rec \in BagToSet(cycles), ok \in BOOLEAN : HeadResolve(rec, ok)
  \/ \E rec \in BagToSet(cycles) : DelayElapse(rec)
  \/ \E rec \in BagToSet(cycles), ok \in BOOLEAN : EventsResolve(rec, ok)
  \/ \E rec \in BagToSet(cycles), ok \in BOOLEAN : FindResolve(rec, ok)
  \/ \E rec \in BagToSet(cycles), ok \in BOOLEAN : SaveResolve(rec, ok)
  \/ \E rec \in BagToSet(cycles) : CycleReturn(rec)
  \/ HeadAdvance
  \/ StatsFind
  \/ StatsReturn

SpecStats == InitStats /\ [][NextStats]_vars

\* a poll cycle has completed: the cursor left the ledger it started at
CycleCompleted == currentLedger # config.startLedger

\* the head of the last completed cycle: completing, a cycle sets the cursor
\* to its head + 1, and nothing else assigns the cursor after start()
LastCompletedHead == currentLedger - 1

\* C30: getStellarEventStats returns totalEvents equal to the number of
\* STELLAR rows the store held when it was queried and to the sum of the
\* eventsByType counts, and, once a poll cycle has completed,
\* lastIndexedLedger equal to the head of the last completed cycle.
C30_StatsConsistent ==
  [][StatsReturn =>
       LET stats == fnResult'.value
       IN /\ stats.totalEvents = Copies(fnResult.events,
                                        {r \in BagToSet(fnResult.events) :
                                           r.chain = STELLAR})
          /\ stats.totalEvents = SumOver(stats.eventsByType,
                                         DOMAIN stats.eventsByType)
          /\ CycleCompleted => stats.lastIndexedLedger = LastCompletedHead
    ]_vars
====
